---- MODULE Spec2Model ----
(***************************************************************************)
(* Model of the MetaGPT web dashboard's real-time synchronisation core:    *)
(* the WebSocket connection manager (composables/useWebSocket.js), the     *)
(* event router (handleMessage), the project store (stores/projects.js),   *)
(* the notification queue (stores/notification.js), the project page's     *)
(* focus switch (views/ProjectPage.vue) and the LLM call panel's cursor.   *)
(*                                                                         *)
(* Conventions.  A JavaScript value that may be null/undefined is a        *)
(* sequence of length <= 1 (None / Some(x)); a socket reference is a       *)
(* socket number, 0 for null.  Money is counted in 1/10000 USD.            *)
(***************************************************************************)
EXTENDS Integers, Sequences, FiniteSets, TLC

\* ------------------------------------------------------------------ bounds
MaxSockets == 2      \* sockets created in one run
MaxLog == 2          \* entries kept per telemetry sequence
MaxLoads == 2        \* focus loads (fetchProject calls) issued in one run
MaxListReqs == 2     \* list refreshes in flight at once
MaxNotes == 1        \* notifications created in one run
MaxCalls == 3        \* LLM call records the server holds per project
MaxCursor == 2       \* positions and totals that a cursor state is drawn from
MaxAdds == 3         \* add calls made on the notification queue alone
MaxOps == 1          \* store operations waiting for a response at once
MaxTicks == 3        \* steps of the clock in a run that tracks time

\* ------------------------------------------------------------- JS optionals
None == << >>
Some(x) == << x >>
Defined(o) == Len(o) = 1
Val(o) == o[1]

Projects == {"P1", "P2"}
NoId == "null"            \* currentProjectId.value = null
NoRoute == "undefined"    \* route.params.id on a route without :id

VARIABLES
    \* useWebSocket.js
    ws,              \* ws.value: number of the socket held, 0 = null
    isConnected,     \* isConnected.value
    sockets,         \* every WebSocket created so far: [url, readyState] and, as
                     \* history, whether it dropped / applied a frame
    \* stores/projects.js
    projects, currentProjectId, currentProject, loading,
    messages, thinkingLogs, llmCalls, toolUsages,
    listReqs,        \* api.getProjects() requests in flight
    refresh,         \* history: those requests by number, in the order issued
                     \* (flight), the number of the latest, and the number of
                     \* the one whose response projects holds (0: none)
    pending,         \* store operations that wait for a response: [name, id, pc]
                     \* and, as history, the requests that failed and the
                     \* notifications added during the call
    \* stores/notification.js
    notifications, idCounter, timers,
    clock,           \* the time, in ms since the start, where a run tracks it
    \* views/ProjectPage.vue
    page,            \* "none" (not opened yet), "mounted", "left"
    route,           \* route.params.id
    fetching,        \* fetchProject calls in flight: sequence of project ids
    loads,           \* number of loadProject calls so far
    \* LLM call panel (components/EmployeeGrid.vue, <script setup> at 208)
    panel,           \* the panel's refs, as one record
    detailReqs,      \* detail fetches in flight: [project, ordinal]
    trail,           \* history: the last two navigations of the panel shown,
                     \* [via, from, to], to = 0 while the fetch is in flight
    \* history
    op,              \* the step just taken, as a tuple of strings
    uncaught,        \* exceptions that escaped an event handler
    assigned,        \* every id that add has assigned so far
    origin,          \* for each telemetry sequence, the socket that delivered each entry
    delivered        \* the message and project_status frames applied since the last clear

cmVars == << ws, isConnected, sockets >>
storeVars == << projects, currentProjectId, currentProject, loading,
                messages, thinkingLogs, llmCalls, toolUsages, pending, refresh >>
noteVars == << notifications, idCounter, timers, clock, assigned >>
pageVars == << page, route, fetching, loads >>
panelVars == << panel, detailReqs, trail >>
vars == << cmVars, storeVars, listReqs, noteVars, pageVars, panelVars,
           op, uncaught, origin, delivered >>

\* --------------------------------------------------- connection manager
\* The manager's refs together with the browser's sockets, as one value.
CM == [ws |-> ws, isConnected |-> isConnected, sockets |-> sockets]

SetCM(c) ==
    /\ ws' = c.ws
    /\ isConnected' = c.isConnected
    /\ sockets' = c.sockets

\* WebSocket.close(): a socket that is connecting or open starts closing; on a
\* socket that is closing or closed the call does nothing.
SocketClose(s) ==
    IF s.readyState \in {"CONNECTING", "OPEN"}
    THEN [s EXCEPT !.readyState = "CLOSING"]
    ELSE s

disconnect_keepsSocket(c) == [c EXCEPT !.isConnected = FALSE]

disconnect(c) ==
    IF c.ws # 0
    THEN [c EXCEPT !.sockets[c.ws] = SocketClose(@),
                   !.ws = 0,
                   !.isConnected = FALSE]
    ELSE [c EXCEPT !.isConnected = FALSE]

\* new WebSocket(wsUrl): the url is determined by the project id.
NewSocket(projectId) ==
    [url |-> projectId, readyState |-> "CONNECTING", dropped |-> FALSE,
     applied |-> FALSE]

connect_noTeardown(c, projectId) ==
    [c EXCEPT !.sockets = Append(@, NewSocket(projectId)),
              !.ws = Len(c.sockets) + 1]

connect(c, projectId) ==
    LET d == disconnect(c)
    IN  [d EXCEPT !.sockets = Append(@, NewSocket(projectId)),
                  !.ws = Len(d.sockets) + 1]

onopen_noop(c) == c

onopen(c) == [c EXCEPT !.isConnected = TRUE]

onclose_noop(c) == c

onclose(c) == [c EXCEPT !.isConnected = FALSE]

onerror(c) == c

\* ------------------------------------------------------- notification queue
NQ ==
    [notifications |-> notifications, idCounter |-> idCounter, timers |-> timers,
     clock |-> clock]

SetNQ(n) ==
    /\ notifications' = n.notifications
    /\ idCounter' = n.idCounter
    /\ timers' = n.timers
    /\ clock' = n.clock
    /\ assigned' = assigned \cup {n.notifications[i].id : i \in 1..Len(n.notifications)}

DefaultDuration == 4000
ErrorDuration == 6000

add_noTimer(n, message, type, duration) ==
    LET id == n.idCounter + 1
    IN  [n EXCEPT !.idCounter = id,
                  !.notifications = Append(@, [id |-> id, message |-> message,
                                               type |-> type])]

add_reusesIds(n, message, type, duration) ==
    LET id == Len(n.notifications) + 1
    IN  [n EXCEPT !.idCounter = id,
                  !.notifications = Append(@, [id |-> id, message |-> message,
                                               type |-> type]),
                  !.timers = IF duration > 0
                             THEN @ \cup {[id |-> id, duration |-> duration,
                                           due |-> n.clock + duration]}
                             ELSE @]

\* add(message, type, duration); the timer set holds the setTimeout calls that
\* have not fired yet, each with the time it is due at.
add(n, message, type, duration) ==
    LET id == n.idCounter + 1
    IN  [n EXCEPT !.idCounter = id,
                  !.notifications = Append(@, [id |-> id, message |-> message,
                                               type |-> type]),
                  !.timers = IF duration > 0
                             THEN @ \cup {[id |-> id, duration |-> duration,
                                           due |-> n.clock + duration]}
                             ELSE @]

RemoveAt(seq, i) == SubSeq(seq, 1, i - 1) \o SubSeq(seq, i + 1, Len(seq))

\* findIndex / find: the first of the positions that satisfy the test, 0 when
\* there is none.
FirstIndex(hits) ==
    IF hits = {} THEN 0 ELSE CHOOSE i \in hits : \A j \in hits : i <= j

remove_spliceAlways(n, id) ==
    LET index == FirstIndex({i \in 1..Len(n.notifications) :
                                n.notifications[i].id = id})
    IN  IF index > 0
        THEN [n EXCEPT !.notifications = RemoveAt(@, index)]
        ELSE [n EXCEPT !.notifications = SubSeq(@, 1, Len(@) - 1)]

\* The ids of the notifications in a queue.
IdsIn(list) == {list[i].id : i \in 1..Len(list)}

remove_orNext(n, id) ==
    LET index == FirstIndex({i \in 1..Len(n.notifications) :
                                n.notifications[i].id >= id})
    IN  IF index > 0
        THEN [n EXCEPT !.notifications = RemoveAt(@, index)]
        ELSE n

remove(n, id) ==
    LET index == FirstIndex({i \in 1..Len(n.notifications) :
                                n.notifications[i].id = id})
    IN  IF index > 0
        THEN [n EXCEPT !.notifications = RemoveAt(@, index)]
        ELSE n

\* success, warning and info pass their duration on, which is undefined when
\* the caller gives none, so that add's default applies.
success(n, message) == add(n, message, "success", DefaultDuration)

error(n, message) == add(n, message, "error", ErrorDuration)

warning(n, message) == add(n, message, "warning", DefaultDuration)

info(n, message) == add(n, message, "info", DefaultDuration)

\* ----------------------------------------------------------- project store
\* The store's refs as one value; listReqs counts the api.getProjects()
\* requests in flight.
Store ==
    [projects |-> projects, currentProjectId |-> currentProjectId,
     currentProject |-> currentProject, loading |-> loading,
     messages |-> messages, thinkingLogs |-> thinkingLogs,
     llmCalls |-> llmCalls, toolUsages |-> toolUsages, listReqs |-> listReqs,
     pending |-> pending, refresh |-> refresh]

SetStore(s) ==
    /\ projects' = s.projects
    /\ currentProjectId' = s.currentProjectId
    /\ currentProject' = s.currentProject
    /\ loading' = s.loading
    /\ messages' = s.messages
    /\ thinkingLogs' = s.thinkingLogs
    /\ llmCalls' = s.llmCalls
    /\ toolUsages' = s.toolUsages
    /\ listReqs' = s.listReqs
    /\ pending' = s.pending
    /\ refresh' = s.refresh

Now == "now"     \* new Date().toISOString()

\* msg.timestamp || new Date().toISOString(); an absent timestamp is "".
Stamp(ts) == IF ts = "" THEN Now ELSE ts

\* The history of list requests.  Numbers start again at 1 when a request
\* leaves while none is in flight.  Where a run does not track the requests
\* one by one, the history stays Untracked and every request goes as number 0.
NoRefresh == [latest |-> 0, flight |-> {}, held |-> 0]

Untracked == [latest |-> 0, flight |-> {0}, held |-> 0]

Issue(r) ==
    IF r = Untracked THEN r
    ELSE IF r.flight = {}
         THEN [latest |-> 1, flight |-> {1}, held |-> 0]
         ELSE [r EXCEPT !.latest = @ + 1, !.flight = @ \cup {r.latest + 1}]

Settled(r, k, ok) ==
    IF r = Untracked THEN r
    ELSE [r EXCEPT !.flight = @ \ {k}, !.held = IF ok THEN k ELSE @]

\* fetchProjects() up to its await: loading is set and the request leaves.
fetchProjects_start_unlessBusy(s) ==
    IF s.listReqs > 0 THEN s
    ELSE [s EXCEPT !.loading = TRUE, !.listReqs = @ + 1, !.refresh = Issue(@)]

fetchProjects_start(s) ==
    [s EXCEPT !.loading = TRUE, !.listReqs = @ + 1, !.refresh = Issue(@)]

addMessage_front(s, msg) ==
    [s EXCEPT !.messages = << [msg EXCEPT !.timestamp = Stamp(@)] >> \o @]

addMessage(s, msg) ==
    [s EXCEPT !.messages = Append(@, [msg EXCEPT !.timestamp = Stamp(@)])]

\* The entry's id (Date.now() + Math.random()) is a list key only and is left out.
addThinking(s, log) ==
    [s EXCEPT !.thinkingLogs = Append(@, [log EXCEPT !.timestamp = Stamp(@)])]

addLLMCall_sums(s, call) ==
    LET t == [s EXCEPT !.llmCalls = Append(@, [call EXCEPT !.timestamp = Stamp(@)])]
    IN  IF Defined(t.currentProject)
        THEN [t EXCEPT !.currentProject[1].total_cost = @ + call.cost]
        ELSE t

addLLMCall(s, call) ==
    [s EXCEPT !.llmCalls = Append(@, [call EXCEPT !.timestamp = Stamp(@)])]

\* usage.result || '...': the text shown while the tool still runs.
ResultText(result) == IF result = "" THEN "running" ELSE result

addToolUsage_noThinking(s, usage) ==
    [s EXCEPT !.toolUsages = Append(@, [usage EXCEPT !.timestamp = Stamp(@)])]

addToolUsage(s, usage) ==
    LET t == [s EXCEPT !.toolUsages =
                 Append(@, [usage EXCEPT !.timestamp = Stamp(@)])]
    IN  addThinking(t,
            [agent_name |-> usage.agent_name,
             action |-> << "tool", usage.tool_name >>,
             content |-> << "call", usage.tool_name, "args", usage.args,
                            "result", ResultText(usage.result) >>,
             type |-> "tool",
             timestamp |-> ""])

updateEmployees(s, employees) ==
    IF Defined(s.currentProject)
    THEN [s EXCEPT !.currentProject[1].employees = employees]
    ELSE s

\* projects.value.find(p => p.id === currentProjectId.value), as a position.
ListIndex(s) ==
    FirstIndex({i \in 1..Len(s.projects) : s.projects[i].id = s.currentProjectId})

updateStatus_listOnly(s, status) ==
    LET i == ListIndex(s)
    IN  IF i > 0 THEN [s EXCEPT !.projects[i].status = status] ELSE s

updateStatus(s, status) ==
    LET t == IF Defined(s.currentProject)
             THEN [s EXCEPT !.currentProject[1].status = status]
             ELSE s
        i == ListIndex(t)
    IN  IF i > 0 THEN [t EXCEPT !.projects[i].status = status] ELSE t

updateCost_adds(s, cost) ==
    LET t == IF Defined(s.currentProject)
             THEN [s EXCEPT !.currentProject[1].total_cost = @ + cost]
             ELSE s
        i == ListIndex(t)
    IN  IF i > 0 THEN [t EXCEPT !.projects[i].total_cost = @ + cost] ELSE t

updateCost_everyEntry(s, cost) ==
    LET t == IF Defined(s.currentProject)
             THEN [s EXCEPT !.currentProject[1].total_cost = cost]
             ELSE s
    IN  [t EXCEPT !.projects = [i \in 1..Len(@) |-> [@[i] EXCEPT !.total_cost = cost]]]

updateCost(s, cost) ==
    LET t == IF Defined(s.currentProject)
             THEN [s EXCEPT !.currentProject[1].total_cost = cost]
             ELSE s
        i == ListIndex(t)
    IN  IF i > 0 THEN [t EXCEPT !.projects[i].total_cost = cost] ELSE t

updateEmployeeStatus_inserts(s, data) ==
    IF ~Defined(s.currentProject) \/ ~Defined(s.currentProject[1].employees)
    THEN s
    ELSE LET employees == Val(s.currentProject[1].employees)
             i == FirstIndex({k \in 1..Len(employees) :
                                employees[k].name = data.agent_name})
         IN  IF i > 0
             THEN [s EXCEPT !.currentProject[1].employees[1][i].is_idle =
                                data.status = "idle",
                            !.currentProject[1].employees[1][i].current_action =
                                data.action]
             ELSE [s EXCEPT !.currentProject[1].employees[1] =
                     Append(@, [name |-> data.agent_name, profile |-> "",
                                is_idle |-> data.status = "idle",
                                current_action |-> data.action])]

updateEmployeeStatus_firstOnly(s, data) ==
    IF ~Defined(s.currentProject) \/ ~Defined(s.currentProject[1].employees)
    THEN s
    ELSE IF Len(Val(s.currentProject[1].employees)) > 0
         THEN [s EXCEPT !.currentProject[1].employees[1][1].is_idle =
                            data.status = "idle",
                        !.currentProject[1].employees[1][1].current_action =
                            data.action]
         ELSE s

\* data.action || '': an absent action is "".
updateEmployeeStatus(s, data) ==
    IF ~Defined(s.currentProject) \/ ~Defined(s.currentProject[1].employees)
    THEN s
    ELSE LET employees == Val(s.currentProject[1].employees)
             i == FirstIndex({k \in 1..Len(employees) :
                                employees[k].name = data.agent_name})
         IN  IF i > 0
             THEN [s EXCEPT !.currentProject[1].employees[1][i].is_idle =
                                data.status = "idle",
                            !.currentProject[1].employees[1][i].current_action =
                                data.action]
             ELSE s

clearMessages_keepsLogs(s) == s

clearMessages_dropsFocus(s) ==
    [s EXCEPT !.messages = << >>, !.thinkingLogs = << >>,
              !.llmCalls = << >>, !.toolUsages = << >>,
              !.currentProject = None, !.currentProjectId = NoId]

clearMessages(s) ==
    [s EXCEPT !.messages = << >>, !.thinkingLogs = << >>,
              !.llmCalls = << >>, !.toolUsages = << >>]

reset_keepsFocus(s) ==
    [s EXCEPT !.messages = << >>, !.thinkingLogs = << >>,
              !.llmCalls = << >>, !.toolUsages = << >>]

reset(s) ==
    [s EXCEPT !.currentProject = None, !.currentProjectId = NoId,
              !.messages = << >>, !.thinkingLogs = << >>,
              !.llmCalls = << >>, !.toolUsages = << >>]

\* ------------------------------------------------------------ event router
unknownTag_appends(s, data) ==
    addMessage(s, [type |-> data.type, content |-> "", sent_from |-> "",
                   timestamp |-> ""])

\* default: console.log('Unknown message type:', data.type)
unknownTag(s, data) == s

projectStatus_anyStatus(s, data) ==
    LET t1 == updateStatus(s, data.status)
        t2 == addMessage(t1, [type |-> "system", content |-> data.message,
                              sent_from |-> "System", timestamp |-> ""])
        t3 == IF Defined(data.total_cost)
              THEN LET u == updateCost(t2, Val(data.total_cost))
                   IN  IF Defined(u.currentProject)
                       THEN [u EXCEPT !.currentProject[1].output_path =
                                          data.output_path]
                       ELSE u
              ELSE t2
    IN  fetchProjects_start(t3)

\* case 'project_status'
projectStatus(s, data) ==
    LET t1 == updateStatus(s, data.status)
        t2 == addMessage(t1, [type |-> "system", content |-> data.message,
                              sent_from |-> "System", timestamp |-> ""])
        t3 == IF data.status = "completed" /\ Defined(data.total_cost)
              THEN LET u == updateCost(t2, Val(data.total_cost))
                   IN  IF Defined(u.currentProject)
                       THEN [u EXCEPT !.currentProject[1].output_path =
                                          data.output_path]
                       ELSE u
              ELSE t2
    IN  fetchProjects_start(t3)

handleMessage(s, data) ==
    CASE data.type = "connected" ->
            IF Defined(data.employees)
            THEN updateEmployees(s, data.employees)
            ELSE s
      [] data.type = "message" -> addMessage(s, data)
      [] data.type = "agent_status" -> updateEmployeeStatus(s, data)
      [] data.type = "thinking" -> addThinking(s, data)
      [] data.type = "llm_call" ->
            LET t == addLLMCall(s,
                        [agent_name |-> data.agent_name, model |-> data.model,
                         prompt |-> data.prompt, response |-> data.response,
                         cost |-> data.cost, tokens |-> data.tokens,
                         timestamp |-> ""])
            IN  IF Defined(data.total_cost)
                THEN updateCost(t, Val(data.total_cost))
                ELSE t
      [] data.type = "tool_usage" ->
            addToolUsage(s,
                [agent_name |-> data.agent_name, tool_name |-> data.tool_name,
                 args |-> data.args, result |-> data.result, timestamp |-> ""])
      [] data.type = "cost_update" ->
            IF Defined(data.total_cost)
            THEN updateCost(s, Val(data.total_cost))
            ELSE s
      [] data.type = "project_status" -> projectStatus(s, data)
      [] data.type = "employees_updated" -> updateEmployees(s, data.employees)
      [] OTHER -> unknownTag(s, data)

\* JSON.parse(event.data): a frame is either the text of a JSON object or text
\* that does not parse; None stands for the SyntaxError.
JSONparse(raw) == IF raw.kind = "json" THEN Some(raw.data) ELSE None

onmessage_noCatch(s, raw) ==
    LET d == JSONparse(raw)
    IN  IF Defined(d)
        THEN [store |-> handleMessage(s, Val(d)), threw |-> FALSE]
        ELSE [store |-> addMessage(s, [type |-> "message", content |-> "",
                                       sent_from |-> "", timestamp |-> ""]),
              threw |-> TRUE]

\* ws.onmessage: the result is the store afterwards and whether an exception
\* left the handler.
onmessage(s, raw) ==
    LET d == JSONparse(raw)
    IN  IF Defined(d)
        THEN [store |-> handleMessage(s, Val(d)), threw |-> FALSE]
        ELSE [store |-> s, threw |-> FALSE]

\* ----------------------------------------------------------- LLM call panel
InitPanel ==
    [currentCall |-> None, currentIndex |-> 0, totalCount |-> 0,
     hasPrev |-> FALSE, hasNext |-> FALSE, loading |-> FALSE,
     expandedMsgs |-> {}, responseExpanded |-> FALSE]

isLatest(p) == p.currentIndex >= p.totalCount

\* latestCall.index || newLen: a pushed summary carries no index or total_count.
ShowLatest(p, calls) ==
    LET latestCall == calls[Len(calls)]
        newLen == Len(calls)
    IN  [p EXCEPT !.currentCall = Some(latestCall),
                  !.currentIndex = newLen,
                  !.totalCount = newLen,
                  !.hasPrev = newLen > 1,
                  !.hasNext = FALSE]

watchCalls_never(p, oldLen, newLen, calls) == p

watchCalls_alwaysFollows(p, oldLen, newLen, calls) ==
    IF newLen > oldLen /\ Len(calls) > 0 THEN ShowLatest(p, calls) ELSE p

\* watch(() => props.calls.length, ...)
watchCalls(p, oldLen, newLen, calls) ==
    IF newLen > oldLen /\ Len(calls) > 0
    THEN IF isLatest(p) \/ ~Defined(p.currentCall)
         THEN ShowLatest(p, calls)
         ELSE [p EXCEPT !.totalCount = newLen,
                        !.hasNext = p.currentIndex < newLen]
    ELSE p

onMounted(p, calls) == IF Len(calls) > 0 THEN ShowLatest(p, calls) ELSE p

resetExpandState(p) == [p EXCEPT !.expandedMsgs = {}, !.responseExpanded = FALSE]

\* currentCall.value.full_messages || []: a summary pushed by the stream has
\* no full_messages.
fullMessages(p) ==
    IF Defined(p.currentCall) /\ "full_messages" \in DOMAIN Val(p.currentCall)
    THEN Val(p.currentCall).full_messages
    ELSE << >>

toggleMessage(p, idx) ==
    [p EXCEPT !.expandedMsgs = IF idx \in @ THEN @ \ {idx} ELSE @ \cup {idx}]

toggleResponse(p) == [p EXCEPT !.responseExpanded = ~@]

\* String(n): the decimal digits of n, most significant first.
RECURSIVE Digits(_)
Digits(n) == IF n < 10 THEN << n >> ELSE Append(Digits(n \div 10), n % 10)

\* str.padStart(len, '0')
PadStart(str, len) ==
    IF Len(str) >= len THEN str ELSE [j \in 1..(len - Len(str)) |-> 0] \o str

IdWidth == 4

CallId(n) == PadStart(Digits(n), IdWidth)

\* fetchLLMCall(callId) up to its await; a call without a project id or call
\* id returns at once.  The result is the panel and the request sent, if any.
fetchLLMCall_start(p, projectId, callId) ==
    IF ~Defined(projectId) \/ Len(callId) = 0
    THEN [panel |-> p, sent |-> {}]
    ELSE [panel |-> resetExpandState([p EXCEPT !.loading = TRUE]),
          sent |-> {[project |-> Val(projectId), callId |-> callId]}]

fetchLLMCall_ok_recomputes(p, data) ==
    [p EXCEPT !.currentCall = Some(data),
              !.currentIndex = data.index,
              !.totalCount = data.total_count,
              !.hasPrev = data.index > 1,
              !.hasNext = data.index < data.total_count,
              !.loading = FALSE]

\* fetchLLMCall after its await, response.ok: the record is taken as it
\* comes, whichever project is focused by then.
fetchLLMCall_ok(p, data) ==
    [p EXCEPT !.currentCall = Some(data),
              !.currentIndex = data.index,
              !.totalCount = data.total_count,
              !.hasPrev = data.has_prev,
              !.hasNext = data.has_next,
              !.loading = FALSE]

fetchLLMCall_failed_clears(p) ==
    [p EXCEPT !.currentCall = None, !.currentIndex = 0, !.loading = FALSE]

\* fetchLLMCall after its await, the response not ok or the fetch rejected.
fetchLLMCall_failed(p) == [p EXCEPT !.loading = FALSE]

\* props.projectId: the id of the project the page shows.
PropsProjectId(s) ==
    IF Defined(s.currentProject) THEN Some(s.currentProject[1].id) ELSE None

goToPrev(p, projectId) ==
    IF p.hasPrev /\ p.currentIndex > 1
    THEN fetchLLMCall_start(p, projectId, CallId(p.currentIndex - 1))
    ELSE [panel |-> p, sent |-> {}]

goToNext_flagOnly(p, projectId) ==
    IF p.hasNext
    THEN fetchLLMCall_start(p, projectId, CallId(p.currentIndex + 1))
    ELSE [panel |-> p, sent |-> {}]

goToNext_reloads(p, projectId) ==
    IF p.hasNext /\ p.currentIndex < p.totalCount
    THEN fetchLLMCall_start(p, projectId, CallId(p.currentIndex))
    ELSE [panel |-> p, sent |-> {}]

goToNext(p, projectId) ==
    IF p.hasNext /\ p.currentIndex < p.totalCount
    THEN fetchLLMCall_start(p, projectId, CallId(p.currentIndex + 1))
    ELSE [panel |-> p, sent |-> {}]

goToLatest_current(p, projectId) ==
    IF p.totalCount > 0
    THEN fetchLLMCall_start(p, projectId, CallId(p.currentIndex))
    ELSE [panel |-> p, sent |-> {}]

goToLatest(p, projectId) ==
    IF p.totalCount > 0
    THEN fetchLLMCall_start(p, projectId, CallId(p.totalCount))
    ELSE [panel |-> p, sent |-> {}]

\* The panel is rendered while the page shows a project (v-if="project").
PanelShown(pg, s) == pg = "mounted" /\ Defined(s.currentProject)

\* The panel after a step that took the store from s to t on page state pg -> pg2.
PanelAfter(p, pg, s, pg2, t) ==
    IF ~PanelShown(pg2, t) THEN InitPanel
    ELSE IF ~PanelShown(pg, s) THEN onMounted(InitPanel, t.llmCalls)
    ELSE watchCalls(p, Len(s.llmCalls), Len(t.llmCalls), t.llmCalls)

\* Detail requests whose response can still reach the rendered panel.
ReqsAfter(reqs, pg2, t) == IF PanelShown(pg2, t) THEN reqs ELSE {}

\* ----------------------------------------------------------------- history
\* Which socket delivered each entry of a telemetry sequence: entries added by
\* a step are the step's socket's, an emptied sequence has none.
Track(src, old, new, k) ==
    IF Len(new) = 0 THEN << >>
    ELSE IF Len(new) > Len(old)
         THEN src \o [j \in 1..(Len(new) - Len(old)) |-> k]
         ELSE src

OriginAfter(o, s, t, k) ==
    [messages |-> Track(o.messages, s.messages, t.messages, k),
     thinkingLogs |-> Track(o.thinkingLogs, s.thinkingLogs, t.thinkingLogs, k),
     llmCalls |-> Track(o.llmCalls, s.llmCalls, t.llmCalls, k),
     toolUsages |-> Track(o.toolUsages, s.toolUsages, t.toolUsages, k)]

NoOrigin == [messages |-> << >>, thinkingLogs |-> << >>,
             llmCalls |-> << >>, toolUsages |-> << >>]

\* A step that changes the store: the store, the panel that watches it and
\* the history are set together.
StoreStep(t, pg2, k) ==
    /\ SetStore(t)
    /\ panel' = PanelAfter(panel, page, Store, pg2, t)
    /\ detailReqs' = ReqsAfter(detailReqs, pg2, t)
    /\ trail' = IF PanelShown(pg2, t) THEN trail ELSE << >>
    /\ origin' = OriginAfter(origin, Store, t, k)

WithinLog(t) ==
    /\ Len(t.messages) <= MaxLog
    /\ Len(t.thinkingLogs) <= MaxLog
    /\ Len(t.llmCalls) <= MaxLog
    /\ Len(t.toolUsages) <= MaxLog
    /\ t.listReqs <= MaxListReqs
    /\ t.refresh.latest <= MaxListReqs + 1

\* ------------------------------------------------------------ socket events
\* The browser fires open on a connecting socket.
SockOpen(i) ==
    /\ sockets[i].readyState = "CONNECTING"
    /\ SetCM(onopen([CM EXCEPT !.sockets[i].readyState = "OPEN"]))
    /\ op' = << "open", i >>
    /\ UNCHANGED << storeVars, listReqs, noteVars, pageVars, panelVars,
                    uncaught, origin, delivered >>

\* The connection ends cleanly (the server closed it, or the closing
\* handshake that close() started has finished): the close event fires.
SockClose(i) ==
    /\ sockets[i].readyState \in {"OPEN", "CLOSING"}
    /\ SetCM(onclose([CM EXCEPT !.sockets[i].readyState = "CLOSED"]))
    /\ op' = << "close", i >>
    /\ UNCHANGED << storeVars, listReqs, noteVars, pageVars, panelVars,
                    uncaught, origin, delivered >>

\* The connection fails: the browser fires error and then close in one task.
SockError(i) ==
    /\ sockets[i].readyState \in {"CONNECTING", "OPEN", "CLOSING"}
    /\ SetCM(onclose(onerror([CM EXCEPT !.sockets[i].readyState = "CLOSED"])))
    /\ op' = << "error", i >>
    /\ UNCHANGED << storeVars, listReqs, noteVars, pageVars, panelVars,
                    uncaught, origin, delivered >>

FrameTag(raw) == IF raw.kind = "json" THEN raw.data.type ELSE "garbage"

\* A frame arrives; the browser delivers message events on open sockets only.
SockMessage(i, raw) ==
    /\ sockets[i].readyState = "OPEN"
    /\ LET r == onmessage(Store, raw)
       IN  /\ WithinLog(r.store)
           /\ StoreStep(r.store, page, i)
           /\ uncaught' = (uncaught \/ r.threw)
    /\ sockets' = [sockets EXCEPT ![i].dropped = @ \/ raw.kind # "json",
                                  ![i].applied = @ \/ raw.kind = "json"]
    /\ delivered' = IF FrameTag(raw) \in {"message", "project_status"}
                    THEN Append(delivered, raw.data)
                    ELSE delivered
    /\ op' = << "frame", FrameTag(raw), i, raw >>
    /\ UNCHANGED << ws, isConnected, noteVars, pageVars >>

\* ------------------------------------------------------------------ frames
Garbage == [kind |-> "garbage"]
Json(d) == [kind |-> "json", data |-> d]

MessageFrames ==
    {[type |-> "message", content |-> "hello", sent_from |-> "Alice",
      timestamp |-> ""],
     [type |-> "message", content |-> "bye", sent_from |-> "Bob",
      timestamp |-> "t1"]}

UnknownFrames == {[type |-> "heartbeat"]}

\* ------------------------------------------------------------ initial state
\* The application after construction: no socket, empty store, empty queue,
\* the project page not opened yet.
Init ==
    /\ ws = 0
    /\ isConnected = FALSE
    /\ sockets = << >>
    /\ projects = << >>
    /\ currentProjectId = NoId
    /\ currentProject = None
    /\ loading = FALSE
    /\ messages = << >>
    /\ thinkingLogs = << >>
    /\ llmCalls = << >>
    /\ toolUsages = << >>
    /\ listReqs = 0
    /\ refresh = Untracked
    /\ pending = << >>
    /\ notifications = << >>
    /\ idCounter = 0
    /\ timers = {}
    /\ clock = 0
    /\ page = "none"
    /\ route = NoRoute
    /\ fetching = << >>
    /\ loads = 0
    /\ panel = InitPanel
    /\ detailReqs = {}
    /\ trail = << >>
    /\ op = << "init" >>
    /\ uncaught = FALSE
    /\ assigned = {}
    /\ origin = NoOrigin
    /\ delivered = << >>

\* ------------------------------------- the connection manager on its own
\* connect(projectId), called by any caller.
Connect(p) ==
    /\ Len(sockets) < MaxSockets
    /\ SetCM(connect(CM, p))
    /\ op' = << "connect", p >>
    /\ UNCHANGED << storeVars, listReqs, noteVars, pageVars, panelVars,
                    uncaught, origin, delivered >>

\* disconnect(), called by any caller.
Disconnect ==
    /\ SetCM(disconnect(CM))
    /\ op' = << "disconnect", IF ws = 0 THEN "idle" ELSE "held" >>
    /\ UNCHANGED << storeVars, listReqs, noteVars, pageVars, panelVars,
                    uncaught, origin, delivered >>

ConnFrames ==
    {[type |-> "message", content |-> "hello", sent_from |-> "Alice",
      timestamp |-> ""]}

ConnRaw == {Garbage} \cup {Json(d) : d \in ConnFrames}

ConnNext ==
    \/ \E p \in Projects : Connect(p)
    \/ Disconnect
    \/ \E i \in 1..Len(sockets) : SockOpen(i)
    \/ \E i \in 1..Len(sockets) : SockClose(i)
    \/ \E i \in 1..Len(sockets) : SockError(i)
    \/ \E i \in 1..Len(sockets) : \E raw \in ConnRaw : SockMessage(i, raw)

SpecConn == Init /\ [][ConnNext]_vars

\* --------------------------------------- the stream of a focused project
\* What the server holds: the roster names, the project records it returns.
Employee(n, idle, act) ==
    [name |-> n, profile |-> "Engineer", is_idle |-> idle, current_action |-> act]

Rosters ==
    {<< >>,
     << Employee("Alice", TRUE, "") >>,
     << Employee("Alice", TRUE, ""), Employee("Bob", FALSE, "coding") >>,
     << Employee("Bob", TRUE, ""), Employee("Dave", TRUE, ""),
        Employee("Alice", TRUE, "") >>}

\* api.getProject(id): the record the server returns for project id.
ServerProject(id) ==
    [id |-> id, status |-> "created", total_cost |-> 0,
     employees |-> Some(<< Employee("Alice", TRUE, "") >>), output_path |-> ""]

Summary(id, status, cost) == [id |-> id, status |-> status, total_cost |-> cost]

\* api.getProjects(): the lists the server may answer with.
ServerLists ==
    {<< Summary("P1", "created", 0), Summary("P2", "created", 0) >>,
     << Summary("P1", "completed", 12345), Summary("P2", "created", 0) >>}

\* The page shows project P1: it was fetched, the telemetry is empty and the
\* stream opened for it is open.
FocusedPage ==
    /\ ws = 1
    /\ isConnected = TRUE
    /\ sockets = << [url |-> "P1", readyState |-> "OPEN", dropped |-> FALSE,
                     applied |-> FALSE] >>
    /\ projects = << Summary("P1", "created", 0), Summary("P2", "created", 0) >>
    /\ currentProjectId = "P1"
    /\ currentProject = Some(ServerProject("P1"))
    /\ loading = FALSE
    /\ messages = << >>
    /\ thinkingLogs = << >>
    /\ llmCalls = << >>
    /\ toolUsages = << >>
    /\ listReqs = 0
    /\ pending = << >>
    /\ notifications = << >>
    /\ idCounter = 0
    /\ timers = {}
    /\ clock = 0
    /\ page = "mounted"
    /\ route = "P1"
    /\ fetching = << >>
    /\ loads = 1
    /\ detailReqs = {}
    /\ trail = << >>
    /\ op = << "init" >>
    /\ uncaught = FALSE
    /\ assigned = {}
    /\ origin = NoOrigin
    /\ delivered = << >>

InitFocused == FocusedPage /\ panel = InitPanel /\ refresh = Untracked

\* fetchProjects() after its await, request k having succeeded.
fetchProjects_ok(s, k, list) ==
    [s EXCEPT !.projects = list, !.loading = FALSE, !.listReqs = @ - 1,
              !.refresh = Settled(@, k, TRUE)]

\* fetchProjects() after its await, request k having failed.
fetchProjects_failed(s, k) ==
    [s EXCEPT !.loading = FALSE, !.listReqs = @ - 1,
              !.refresh = Settled(@, k, FALSE)]

\* The list requests in flight that the stream's handler sent (the others
\* belong to store operations that wait for them).
StreamRefreshes ==
    IF refresh = Untracked THEN {0}
    ELSE refresh.flight \ {pending[j].req : j \in 1..Len(pending)}

\* Any of them may be answered next, whatever the order they left in.
ListOk(list) ==
    /\ listReqs > 0
    /\ \E k \in StreamRefreshes :
          /\ StoreStep(fetchProjects_ok(Store, k, list), page, 0)
          /\ op' = << "listOk", k, list >>
    /\ UNCHANGED << cmVars, noteVars, pageVars, uncaught, delivered >>

ListFail ==
    /\ listReqs > 0
    /\ idCounter < MaxNotes
    /\ \E k \in StreamRefreshes :
          /\ StoreStep(fetchProjects_failed(Store, k), page, 0)
          /\ op' = << "listFail", k >>
    /\ SetNQ(error(NQ, "list-load-failed"))
    /\ UNCHANGED << cmVars, pageVars, uncaught, delivered >>

\* A notification's timer fires: remove(id).  Where a run does not track the
\* time, a pending timer may fire at any moment.
TimerFire(tm) ==
    /\ tm \in timers
    /\ SetNQ([remove(NQ, tm.id) EXCEPT !.timers = @ \ {tm}])
    /\ op' = << "timer", tm.id, tm.id \in IdsIn(notifications) >>
    /\ UNCHANGED << cmVars, storeVars, listReqs, pageVars, panelVars,
                    uncaught, origin, delivered >>

\* The message panel's clear button: projectStore.clearMessages().
UserClear ==
    /\ page = "mounted"
    /\ StoreStep(clearMessages(Store), page, 0)
    /\ delivered' = << >>
    /\ op' = << "clear" >>
    /\ UNCHANGED << cmVars, noteVars, pageVars, uncaught >>

StatusFrames ==
    {[type |-> "project_status", status |-> "completed", message |-> "done",
      total_cost |-> Some(12345), output_path |-> "/out"],
     [type |-> "project_status", status |-> "failed", message |-> "crashed",
      total_cost |-> None, output_path |-> ""]}

StreamRaw ==
    {Garbage} \cup
    {Json(d) : d \in MessageFrames \cup StatusFrames \cup UnknownFrames}

StreamNext ==
    \/ \E raw \in StreamRaw : SockMessage(1, raw)
    \/ \E list \in ServerLists : ListOk(list)
    \/ ListFail
    \/ \E tm \in timers : TimerFire(tm)
    \/ UserClear

SpecStream == InitFocused /\ [][StreamNext]_vars

\* ------------------------------------------------ roster events on a stream
\* connected and employees_updated carry a roster or none; agent_status names
\* an employee, who may be unknown, with a status and an action or none ("").
RosterFrames ==
    {[type |-> "connected", employees |-> None]} \cup
    {[type |-> t, employees |-> Some(r)] :
        t \in {"connected", "employees_updated"}, r \in Rosters} \cup
    {[type |-> "employees_updated", employees |-> None]}

AgentFrames ==
    {[type |-> "agent_status", agent_name |-> n, status |-> x[1], action |-> x[2]] :
        n \in {"Alice", "Bob", "Carol"},
        x \in {<< "working", "coding" >>, << "idle", "" >>, << "waiting", "" >>}}

RosterRaw == {Json(d) : d \in RosterFrames \cup AgentFrames}

RosterNext == \E raw \in RosterRaw : SockMessage(1, raw)

SpecRoster == InitFocused /\ [][RosterNext]_vars

\* ------------------------------------------------------- the project page
\* fetchProject(id) up to its await.
fetchProject_start(s) == [s EXCEPT !.loading = TRUE]

\* fetchProject(id) after its await, the request having succeeded.
fetchProject_ok(s, id, project) ==
    [s EXCEPT !.currentProject = Some(project), !.currentProjectId = id,
              !.loading = FALSE]

fetchProject_failed(s) == [s EXCEPT !.loading = FALSE]

\* The page is opened on /project/p: onMounted runs loadProject, which calls
\* fetchProject(route.params.id) and waits.
OpenPage(p) ==
    /\ page = "none"
    /\ page' = "mounted"
    /\ route' = p
    /\ fetching' = Append(fetching, p)
    /\ loads' = loads + 1
    /\ StoreStep(fetchProject_start(Store), "mounted", 0)
    /\ op' = << "open-page", p >>
    /\ UNCHANGED << cmVars, noteVars, uncaught, delivered >>

\* The route changes to another project while the page stays: the watcher on
\* route.params.id runs loadProject.
RouteChange(p) ==
    /\ page = "mounted"
    /\ p # route
    /\ loads < MaxLoads
    /\ route' = p
    /\ fetching' = Append(fetching, p)
    /\ loads' = loads + 1
    /\ StoreStep(fetchProject_start(Store), page, 0)
    /\ op' = << "route", p >>
    /\ UNCHANGED << cmVars, noteVars, page, uncaught, delivered >>

\* A fetchProject request is answered: fetchProject finishes and loadProject
\* goes on with clearMessages() and connect(route.params.id), reading the
\* route as it is now.
FetchProjectOk(k) ==
    /\ k \in 1..Len(fetching)
    /\ LET id == fetching[k]
       IN  /\ StoreStep(clearMessages(fetchProject_ok(Store, id, ServerProject(id))),
                        page, 0)
           /\ op' = << "loaded", id >>
    /\ SetCM(connect(CM, route))
    /\ fetching' = RemoveAt(fetching, k)
    /\ delivered' = << >>
    /\ UNCHANGED << noteVars, page, route, loads, uncaught >>

\* A fetchProject request fails: one error notification, and loadProject's
\* catch asks the router for '/', which LeavePage completes.
FetchProjectFail(k) ==
    /\ k \in 1..Len(fetching)
    /\ idCounter < MaxNotes
    /\ StoreStep(fetchProject_failed(Store), page, 0)
    /\ SetNQ(error(NQ, "project-load-failed"))
    /\ fetching' = RemoveAt(fetching, k)
    /\ op' = << "load-failed", fetching[k] >>
    /\ UNCHANGED << cmVars, page, route, loads, uncaught, delivered >>

\* The page is left: the composable's and the page's onUnmounted hooks run
\* disconnect(), disconnect() and projectStore.reset().
LeavePage ==
    /\ page = "mounted"
    /\ page' = "left"
    /\ route' = NoRoute
    /\ SetCM(disconnect(disconnect(CM)))
    /\ StoreStep(reset(Store), "left", 0)
    /\ delivered' = << >>
    /\ op' = << "leave" >>
    /\ UNCHANGED << noteVars, fetching, loads, uncaught >>

LastTwo(s) == IF Len(s) > 2 THEN SubSeq(s, Len(s) - 1, Len(s)) ELSE s

\* A navigation function has run with result r: the request it sent, if
\* any, is in flight, and the history notes where it started from.
Navigate(via, r) ==
    /\ panel' = r.panel
    /\ detailReqs' = detailReqs \cup r.sent
    /\ trail' = IF r.sent = {}
                THEN trail
                ELSE LastTwo(Append(trail, [via |-> via, from |-> panel.currentIndex,
                                            to |-> 0]))
    /\ op' = << via >>
    /\ UNCHANGED << cmVars, storeVars, listReqs, noteVars, pageVars,
                    uncaught, origin, delivered >>

\* goToPrev(), goToNext(), goToLatest() run on the panel shown.
Prev ==
    /\ PanelShown(page, Store)
    /\ Navigate("prev", goToPrev(panel, PropsProjectId(Store)))

Next ==
    /\ PanelShown(page, Store)
    /\ Navigate("next", goToNext(panel, PropsProjectId(Store)))

Latest ==
    /\ PanelShown(page, Store)
    /\ Navigate("latest", goToLatest(panel, PropsProjectId(Store)))

\* The panel's previous button, enabled while hasPrev and not loading.
GoToPrev ==
    /\ panel.hasPrev /\ ~panel.loading
    /\ Prev

\* The next button, enabled while hasNext and not loading.
GoToNext ==
    /\ panel.hasNext /\ ~panel.loading
    /\ Next

\* The latest button, enabled while not at the latest and not loading.
GoToLatest ==
    /\ ~isLatest(panel) /\ ~panel.loading
    /\ Latest

\* The detail view, shown while no fetch is in flight and a record is set.
DetailShown == PanelShown(page, Store) /\ ~panel.loading /\ Defined(panel.currentCall)

\* A click on the header of message idx of the record shown.
ToggleMessage(idx) ==
    /\ DetailShown
    /\ idx \in 1..Len(fullMessages(panel))
    /\ panel' = toggleMessage(panel, idx)
    /\ op' = << "toggle-message", idx >>
    /\ UNCHANGED << cmVars, storeVars, listReqs, noteVars, pageVars, detailReqs,
                    trail, uncaught, origin, delivered >>

\* A click on the response's label.
ToggleResponse ==
    /\ DetailShown
    /\ panel' = toggleResponse(panel)
    /\ op' = << "toggle-response" >>
    /\ UNCHANGED << cmVars, storeVars, listReqs, noteVars, pageVars, detailReqs,
                    trail, uncaught, origin, delivered >>

\* parseInt of a call id, as the server reads it.
RECURSIVE Ordinal(_)
Ordinal(callId) ==
    IF Len(callId) = 0 THEN 0
    ELSE 10 * Ordinal(SubSeq(callId, 1, Len(callId) - 1)) + callId[Len(callId)]

\* A detail record as the server returns it.
Detail(project, k, n, prev, next) ==
    [project |-> project, index |-> k, total_count |-> n,
     has_prev |-> prev, has_next |-> next,
     agent_name |-> "Alice", full_messages |-> << "q" >>, full_response |-> "full"]

\* What the server may answer to a detail request: the record at that
\* position of the project's set, which holds at least that many records.
DetailResponses(req) ==
    LET k == Ordinal(req.callId)
    IN  {Detail(req.project, k, n, k > 1, k < n) :
            n \in {m \in 1..MaxCalls : m >= k}}

\* The history once the fetch in flight has been answered with record `to`
\* (0: it failed, and the navigation is forgotten).
Arrived(tr, to) ==
    IF Len(tr) > 0 /\ tr[Len(tr)].to = 0
    THEN IF to > 0
         THEN [tr EXCEPT ![Len(tr)].to = to]
         ELSE SubSeq(tr, 1, Len(tr) - 1)
    ELSE tr

DetailOk(req, data) ==
    /\ req \in detailReqs
    /\ panel' = fetchLLMCall_ok(panel, data)
    /\ detailReqs' = detailReqs \ {req}
    /\ trail' = Arrived(trail, data.index)
    /\ op' = << "detail-ok", req.project, data >>
    /\ UNCHANGED << cmVars, storeVars, listReqs, noteVars, pageVars,
                    uncaught, origin, delivered >>

DetailFail(req) ==
    /\ req \in detailReqs
    /\ panel' = fetchLLMCall_failed(panel)
    /\ detailReqs' = detailReqs \ {req}
    /\ trail' = Arrived(trail, 0)
    /\ op' = << "detail-failed", req.project >>
    /\ UNCHANGED << cmVars, storeVars, listReqs, noteVars, pageVars,
                    uncaught, origin, delivered >>

CallFrames ==
    {[type |-> "llm_call", agent_name |-> "Alice", model |-> "gpt", prompt |-> "q",
      response |-> "a", cost |-> 100, tokens |-> 10, total_cost |-> None]}

FocusRaw == {Json(d) : d \in ConnFrames \cup CallFrames}

FocusNext ==
    \/ \E p \in Projects : OpenPage(p)
    \/ \E p \in Projects : RouteChange(p)
    \/ \E k \in 1..Len(fetching) : FetchProjectOk(k)
    \/ \E k \in 1..Len(fetching) : FetchProjectFail(k)
    \/ LeavePage
    \/ UserClear
    \/ \E tm \in timers : TimerFire(tm)
    \/ \E i \in 1..Len(sockets) : SockOpen(i)
    \/ \E i \in 1..Len(sockets) : SockClose(i)
    \/ \E i \in 1..Len(sockets) : SockError(i)
    \/ \E i \in 1..Len(sockets) : \E raw \in FocusRaw : SockMessage(i, raw)

SpecFocus == Init /\ [][FocusNext]_vars

\* ------------------------------- a focus switch with a detail fetch in flight
StaleRaw == {Json(d) : d \in CallFrames}

StaleNext ==
    \/ \E p \in Projects : RouteChange(p)
    \/ \E k \in 1..Len(fetching) : FetchProjectOk(k)
    \/ \E k \in 1..Len(fetching) : FetchProjectFail(k)
    \/ \E tm \in timers : TimerFire(tm)
    \/ \E i \in 1..Len(sockets) : SockOpen(i)
    \/ \E i \in 1..Len(sockets) : SockClose(i)
    \/ \E i \in 1..Len(sockets) : \E raw \in StaleRaw : SockMessage(i, raw)
    \/ GoToPrev
    \/ \E req \in detailReqs : \E data \in DetailResponses(req) : DetailOk(req, data)
    \/ \E req \in detailReqs : DetailFail(req)

SpecStale == InitFocused /\ [][StaleNext]_vars

\* ------------------------------------------------- the LLM call panel in use
\* A second agent's call, so that successive summaries differ.
ReplyFrames ==
    {[type |-> "llm_call", agent_name |-> "Bob", model |-> "gpt", prompt |-> "q2",
      response |-> "b", cost |-> 250, tokens |-> 20, total_cost |-> None]}

PanelRaw == {Json(d) : d \in CallFrames \cup ReplyFrames}

PanelNext ==
    \/ \E raw \in PanelRaw : SockMessage(1, raw)
    \/ UserClear
    \/ GoToPrev
    \/ GoToNext
    \/ GoToLatest
    \/ \E req \in detailReqs : \E data \in DetailResponses(req) : DetailOk(req, data)
    \/ \E req \in detailReqs : DetailFail(req)
    \/ \E idx \in 1..Len(fullMessages(panel)) : ToggleMessage(idx)
    \/ ToggleResponse

SpecPanel == InitFocused /\ [][PanelNext]_vars

\* ------------------------------------- the cursor's functions on any cursor
\* The cursor's index, total and flags are what the last response said, so
\* the functions are applied to every combination of them, whatever the
\* buttons' state, and answered with every combination.
CursorStates ==
    {[InitPanel EXCEPT !.currentIndex = i, !.totalCount = n,
                       !.hasPrev = a, !.hasNext = b,
                       !.currentCall = IF i = 0 THEN None
                                       ELSE Some(Detail("P1", i, n, a, b))] :
        i \in 0..MaxCursor, n \in 0..MaxCursor, a \in BOOLEAN, b \in BOOLEAN}

InitCursor == FocusedPage /\ panel \in CursorStates /\ refresh = Untracked

AnyResponses(req) ==
    {Detail(req.project, Ordinal(req.callId), n, a, b) :
        n \in 1..MaxCursor, a \in BOOLEAN, b \in BOOLEAN}

CursorNext ==
    \/ Prev
    \/ Next
    \/ Latest
    \/ \E req \in detailReqs : \E data \in AnyResponses(req) : DetailOk(req, data)
    \/ \E req \in detailReqs : DetailFail(req)

SpecCursor == InitCursor /\ [][CursorNext]_vars

\* ------------------------------------------- tool and thinking events
\* tool_usage names an agent and a tool, with the arguments and the result or
\* none ("") while the tool still runs; thinking is an agent's own log entry.
ToolFrames ==
    {[type |-> "tool_usage", agent_name |-> "Alice", tool_name |-> "search",
      args |-> "q=tla", result |-> ""],
     [type |-> "tool_usage", agent_name |-> "Bob", tool_name |-> "editor",
      args |-> "main.py", result |-> "saved"],
     [type |-> "tool_usage", agent_name |-> "Alice", tool_name |-> "editor",
      args |-> "", result |-> "failed"]}

ThinkingFrames ==
    {[type |-> "thinking", agent_name |-> "Alice", action |-> << "plan" >>,
      content |-> << "considering" >>, timestamp |-> ""],
     [type |-> "thinking", agent_name |-> "Bob", action |-> << "write" >>,
      content |-> << "drafting" >>, timestamp |-> "t1"]}

ToolsRaw ==
    {Garbage} \cup {Json(d) : d \in ToolFrames \cup ThinkingFrames \cup ConnFrames}

ToolsNext ==
    \/ \E raw \in ToolsRaw : SockMessage(1, raw)
    \/ UserClear

SpecTools == InitFocused /\ [][ToolsNext]_vars

\* ------------------------------------------------------------- cost events
\* cost_update carries the running total or none; an llm_call carries its own
\* cost and, the server permitting, the running total; project_status
\* 'running' announces the start of a run.
CostFrames ==
    {[type |-> "cost_update", total_cost |-> Some(500)],
     [type |-> "cost_update", total_cost |-> Some(300)],
     [type |-> "cost_update", total_cost |-> None]}

PricedCallFrames ==
    {[type |-> "llm_call", agent_name |-> "Bob", model |-> "gpt", prompt |-> "q",
      response |-> "a", cost |-> 250, tokens |-> 20, total_cost |-> Some(700)]}

RunFrames ==
    {[type |-> "project_status", status |-> "running", message |-> "started",
      total_cost |-> None, output_path |-> ""]}

CostRaw ==
    {Json(d) : d \in CostFrames \cup PricedCallFrames \cup CallFrames \cup RunFrames}

CostNext ==
    \/ \E raw \in CostRaw : SockMessage(1, raw)
    \/ \E list \in ServerLists : ListOk(list)
    \/ ListFail
    \/ \E tm \in timers : TimerFire(tm)
    \/ LeavePage

SpecCost == InitFocused /\ [][CostNext]_vars

\* --------------------------------------- clearing the telemetry of a run
ClearRaw ==
    {Json(d) : d \in PricedCallFrames \cup RunFrames
                     \cup {u \in ToolFrames : u.result = ""}}

ClearNext ==
    \/ \E raw \in ClearRaw : SockMessage(1, raw)
    \/ \E list \in ServerLists : ListOk(list)
    \/ ListFail
    \/ \E tm \in timers : TimerFire(tm)
    \/ UserClear

SpecClear == InitFocused /\ [][ClearNext]_vars

\* ------------------------------------------------ overlapping list refreshes
\* Status events on the focused project's stream, and the answers to the
\* list requests they send, each request tracked by its number.
InitTracked == FocusedPage /\ panel = InitPanel /\ refresh = NoRefresh

\* A run stopped by the user, announced with what it had cost and written.
StoppedFrames ==
    {[type |-> "project_status", status |-> "stopped", message |-> "stopped",
      total_cost |-> Some(999), output_path |-> "/partial"]}

RefreshRaw == {Json(d) : d \in RunFrames \cup StatusFrames \cup StoppedFrames}

RefreshNext ==
    \/ \E raw \in RefreshRaw : SockMessage(1, raw)
    \/ \E list \in ServerLists : ListOk(list)
    \/ ListFail

SpecRefresh == InitTracked /\ [][RefreshNext]_vars

\* ------------------------------------------ the notification queue on its own
\* A caller adds a notification: through success, error, warning or info, or
\* through add with a duration of its own (0: no automatic removal).
NoteKinds == {"success", "error", "warning", "info", "sticky"}

AddKind(n, kind) ==
    CASE kind = "success" -> success(n, "m")
      [] kind = "error" -> error(n, "m")
      [] kind = "warning" -> warning(n, "m")
      [] kind = "info" -> info(n, "m")
      [] OTHER -> add(n, "m", "info", 0)

Add(kind) ==
    /\ idCounter < MaxAdds
    /\ LET n == AddKind(NQ, kind)
       IN  /\ SetNQ(n)
           /\ op' = << "add", n.notifications[Len(n.notifications)].id, kind >>
    /\ UNCHANGED << cmVars, storeVars, listReqs, pageVars, panelVars,
                    uncaught, origin, delivered >>

\* remove(id): the close button of a notification shown, or any other caller.
Remove(id) ==
    /\ SetNQ(remove(NQ, id))
    /\ op' = << "remove", id >>
    /\ UNCHANGED << cmVars, storeVars, listReqs, pageVars, panelVars,
                    uncaught, origin, delivered >>

NotesNext ==
    \/ \E kind \in NoteKinds : Add(kind)
    \/ \E id \in 1..MaxAdds : Remove(id)
    \/ \E tm \in timers : TimerFire(tm)

SpecNotes == Init /\ [][NotesNext]_vars

\* ------------------------------------------ the notification queue in time
\* The clock advances in steps of Quantum ms.
Quantum == ErrorDuration - DefaultDuration

\* A timer that is due fires: the browser runs a timer's callback once its
\* delay has elapsed.
Expire(tm) ==
    /\ tm \in timers
    /\ tm.due <= clock
    /\ TimerFire(tm)

\* Time passes, up to the moment the next timer is due at.
Tick ==
    /\ clock < MaxTicks * Quantum
    /\ \A tm \in timers : tm.due > clock
    /\ clock' = clock + Quantum
    /\ op' = << "tick" >>
    /\ UNCHANGED << cmVars, storeVars, listReqs, notifications, idCounter, timers,
                    assigned, pageVars, panelVars, uncaught, origin, delivered >>

TimedNext ==
    \/ \E kind \in NoteKinds : Add(kind)
    \/ \E id \in 1..MaxAdds : Remove(id)
    \/ \E tm \in timers : Expire(tm)
    \/ Tick

SpecTimed == Init /\ [][TimedNext]_vars

\* ------------------------------------------- the store's asynchronous calls
\* The store and the notification queue that its operations write to.
App == [store |-> Store, nq |-> NQ]

\* How a run of an async function ends: at an await on the request named pc,
\* by returning, or by throwing to its caller.
Await(a, pc) == [app |-> a, pc |-> pc, threw |-> FALSE]
Return(a) == [app |-> a, pc |-> "done", threw |-> FALSE]
Throw(a) == [app |-> a, pc |-> "done", threw |-> TRUE]

\* fetchProjects() from its await on: the catch notifies and does not rethrow.
fetchProjects_end(a, resp) ==
    IF resp.ok
    THEN [a EXCEPT !.store = fetchProjects_ok(@, resp.req, resp.body)]
    ELSE [a EXCEPT !.store = fetchProjects_failed(@, resp.req),
                   !.nq = error(@, "list-load-failed")]

\* Each operation below is the function run from the point pc ("start": the
\* call itself; otherwise the request it awaited, answered by resp) up to
\* its next await or its end.
fetchProject(a, id, pc, resp) ==
    IF pc = "start"
    THEN Await([a EXCEPT !.store = fetchProject_start(@)], "getProject")
    ELSE IF resp.ok
         THEN Return([a EXCEPT !.store = fetchProject_ok(@, id, resp.body[1])])
         ELSE Throw([a EXCEPT !.store = fetchProject_failed(@),
                              !.nq = error(@, "project-load-failed")])

createProject(a, pc, resp) ==
    CASE pc = "start" -> Await(a, "createProject")
      [] pc = "createProject" ->
            IF resp.ok
            THEN Await([a EXCEPT !.store = fetchProjects_start(@)], "getProjects")
            ELSE Throw([a EXCEPT !.nq = error(@, "create-failed")])
      [] pc = "getProjects" ->
            Return([fetchProjects_end(a, resp) EXCEPT !.nq = success(@, "created")])

updateProject(a, id, pc, resp) ==
    CASE pc = "start" -> Await(a, "updateProject")
      [] pc = "updateProject" ->
            IF resp.ok
            THEN IF a.store.currentProjectId = id
                 THEN fetchProject(a, id, "start", resp)
                 ELSE Return(a)
            ELSE Throw([a EXCEPT !.nq = error(@, "update-failed")])
      [] pc = "getProject" ->
            LET r == fetchProject(a, id, pc, resp)
            IN  IF r.threw
                THEN Throw([r.app EXCEPT !.nq = error(@, "update-failed")])
                ELSE r

deleteProject_alwaysReleases(a, id, pc, resp) ==
    CASE pc = "start" -> Await(a, "deleteProject")
      [] pc = "deleteProject" ->
            IF resp.ok
            THEN LET b == [a EXCEPT !.store.currentProject = None,
                                    !.store.currentProjectId = NoId]
                 IN  Await([b EXCEPT !.store = fetchProjects_start(@)], "getProjects")
            ELSE Throw([a EXCEPT !.nq = error(@, "delete-failed")])
      [] pc = "getProjects" ->
            Return([fetchProjects_end(a, resp) EXCEPT !.nq = success(@, "deleted")])

deleteProject(a, id, pc, resp) ==
    CASE pc = "start" -> Await(a, "deleteProject")
      [] pc = "deleteProject" ->
            IF resp.ok
            THEN LET b == IF a.store.currentProjectId = id
                          THEN [a EXCEPT !.store.currentProject = None,
                                         !.store.currentProjectId = NoId]
                          ELSE a
                 IN  Await([b EXCEPT !.store = fetchProjects_start(@)], "getProjects")
            ELSE Throw([a EXCEPT !.nq = error(@, "delete-failed")])
      [] pc = "getProjects" ->
            Return([fetchProjects_end(a, resp) EXCEPT !.nq = success(@, "deleted")])

startProject(a, id, pc, resp) ==
    IF pc = "start" THEN Await(a, "startProject")
    ELSE IF resp.ok
         THEN Return([a EXCEPT !.nq = success(@, "started")])
         ELSE Throw([a EXCEPT !.nq = error(@, "start-failed")])

stopProject(a, id, pc, resp) ==
    IF pc = "start" THEN Await(a, "stopProject")
    ELSE IF resp.ok
         THEN Return([a EXCEPT !.nq = warning(@, "stopped")])
         ELSE Throw([a EXCEPT !.nq = error(@, "stop-failed")])

OpNames == {"fetchProject", "createProject", "updateProject", "deleteProject",
            "startProject", "stopProject"}

\* createProject takes the new project's data, the others a project id.
OpArgs(name) == IF name = "createProject" THEN {"new"} ELSE Projects

Run(c, a, resp) ==
    CASE c.name = "fetchProject" -> fetchProject(a, c.id, c.pc, resp)
      [] c.name = "createProject" -> createProject(a, c.pc, resp)
      [] c.name = "updateProject" -> updateProject(a, c.id, c.pc, resp)
      [] c.name = "deleteProject" -> deleteProject(a, c.id, c.pc, resp)
      [] c.name = "startProject" -> startProject(a, c.id, c.pc, resp)
      [] c.name = "stopProject" -> stopProject(a, c.id, c.pc, resp)

Failure == [ok |-> FALSE, body |-> << >>, req |-> 0]

Success(body) == [ok |-> TRUE, body |-> body, req |-> 0]

\* The answers the server may give to the request a call waits for; req is
\* the number of the list request answered, if it is one.
Responses(c) ==
    {[resp EXCEPT !.req = c.req] : resp \in
        {Failure} \cup
        CASE c.pc = "getProjects" -> {Success(list) : list \in ServerLists}
          [] c.pc = "getProject" -> {Success(<< ServerProject(c.id) >>)}
          [] OTHER -> {Success(<< >>)}}

\* The number of the list request that a run of a call sent, else the one it
\* had.
ReqAfter(c, t) ==
    IF t.listReqs > listReqs THEN t.refresh.latest
    ELSE IF t.listReqs < listReqs THEN 0
    ELSE c.req

\* The severities of the notifications that a step added to the queue.
Added(old, new) ==
    [i \in 1..(Len(new.notifications) - Len(old.notifications)) |->
        new.notifications[Len(old.notifications) + i].type]

\* A caller calls a store operation, which runs up to its first await.
Call(name, id) ==
    /\ Len(pending) < MaxOps
    /\ idCounter < MaxNotes
    /\ LET c == [name |-> name, id |-> id, pc |-> "start", failed |-> 0,
                 noted |-> << >>, req |-> 0]
           r == Run(c, App, Failure)
       IN  /\ r.app.store.refresh.latest <= MaxListReqs + 1
           /\ StoreStep([r.app.store EXCEPT
                            !.pending = Append(@, [c EXCEPT !.pc = r.pc,
                                                            !.req = ReqAfter(c, r.app.store)])],
                        page, 0)
    /\ op' = << "call", name, id >>
    /\ UNCHANGED << cmVars, noteVars, pageVars, uncaught, delivered >>

\* The request that call k waits for is answered: the call runs on to its
\* next await or to its end.  A call that ends reports, in op, how many of
\* its requests failed, whether it threw, and what it had added to the queue.
Respond(k, resp) ==
    /\ k \in 1..Len(pending)
    /\ resp \in Responses(pending[k])
    /\ LET c == pending[k]
           r == Run(c, App, resp)
           d == [c EXCEPT !.pc = r.pc,
                          !.req = ReqAfter(c, r.app.store),
                          !.failed = @ + (IF resp.ok THEN 0 ELSE 1),
                          !.noted = @ \o Added(NQ, r.app.nq)]
       IN  /\ r.app.store.refresh.latest <= MaxListReqs + 1
           /\ StoreStep([r.app.store EXCEPT
                            !.pending = IF r.pc = "done"
                                        THEN RemoveAt(@, k)
                                        ELSE [@ EXCEPT ![k] = d]], page, 0)
           /\ SetNQ(r.app.nq)
           /\ op' = IF r.pc = "done"
                    THEN << "call-end", c.name, d.failed, r.threw, d.noted, c.id >>
                    ELSE << "call-await", c.name, r.pc, c.id >>
    /\ UNCHANGED << cmVars, pageVars, uncaught, delivered >>

OpsNext ==
    \/ \E name \in OpNames : \E id \in OpArgs(name) : Call(name, id)
    \/ \E k \in 1..Len(pending) : \E resp \in Responses(pending[k]) : Respond(k, resp)
    \/ \E tm \in timers : TimerFire(tm)
    \/ \E i \in 1..Len(notifications) : Remove(notifications[i].id)

SpecOps == InitFocused /\ [][OpsNext]_vars

\* ------------------------------------------------------------------ claims
\* The parts of C1_OneStream, stated below.
C1_AtMostOneStream ==
    \A i \in 1..Len(sockets) :
        sockets[i].readyState \in {"CONNECTING", "OPEN"} => i = ws

C1_ConnectStep ==
    op'[1] = "connect" =>
        /\ Len(sockets') = Len(sockets) + 1
        /\ ws' = Len(sockets')
        /\ sockets'[ws'] = NewSocket(op'[2])
        /\ \A i \in 1..Len(sockets) :
              /\ sockets'[i].url = sockets[i].url
              /\ sockets'[i].readyState \notin {"CONNECTING", "OPEN"}

\* C1: after any interleaving of connect, disconnect and transport events the
\* manager holds at most one stream it has not closed (the only socket that is
\* still connecting or open is the one ws refers to), and connect(p) closes
\* the socket held before and creates exactly one socket, for project p.
C1_OneStream == []C1_AtMostOneStream /\ [][C1_ConnectStep]_vars

\* C1 witness: connect has just replaced a socket that was still in use.
C1_Witness ==
    /\ op[1] = "connect"
    /\ ws >= 2
    /\ sockets[ws - 1].readyState = "CLOSING"
    /\ sockets[ws].readyState = "CONNECTING"

\* The parts of C4_NoAutoReconnect, stated below.
C4_Step ==
    /\ op'[1] \in {"close", "error"} =>
          /\ isConnected' = FALSE
          /\ Len(sockets') = Len(sockets)
          /\ ws' = ws
    /\ Len(sockets') # Len(sockets) => op'[1] = "connect"

\* C4: a transport close or error event leaves isConnected false and creates
\* no socket; a socket is created by a connect call only.
C4_NoAutoReconnect == [][C4_Step]_vars

\* C4 witness: the socket in use was open and the transport has closed it.
C4_Witness ==
    /\ op[1] = "close"
    /\ ws = op[2]
    /\ sockets[ws].readyState = "CLOSED"
    /\ ~isConnected

\* C5: disconnect() leaves no socket held and isConnected false, a second
\* call changes nothing more, and a call with no socket held changes nothing.
C5_DisconnectIdempotent ==
    LET d == disconnect(CM)
    IN  /\ d.ws = 0
        /\ ~d.isConnected
        /\ disconnect(d) = d
        /\ ws = 0 => d = CM

\* C5 witness: disconnect() has just run with no socket held.
C5_Witness ==
    /\ op[1] = "disconnect"
    /\ op[2] = "idle"
    /\ ws = 0
    /\ ~isConnected
    /\ Len(sockets) > 0

\* The store's own fields (the refs of stores/projects.js and the requests
\* it has in flight).
storeFields == << storeVars, listReqs >>

\* The parts of C6_MalformedDropped, stated below.
C6_Step ==
    /\ (op'[1] = "frame" /\ op'[2] = "garbage") =>
          /\ UNCHANGED storeFields
          /\ UNCHANGED << ws, isConnected >>
          /\ ~uncaught'
          /\ sockets'[op'[3]].readyState = "OPEN"
    /\ (op'[1] = "frame" /\ op'[2] = "message" /\ sockets[op'[3]].dropped) =>
          /\ Len(messages') = Len(messages) + 1
          /\ messages'[Len(messages')].content = delivered'[Len(delivered')].content

\* C6: a frame that does not parse is dropped: every store field keeps its
\* value, no exception leaves the handler, the socket stays open, and a
\* message frame that arrives on that socket afterwards is still appended.
C6_MalformedDropped == [][C6_Step]_vars

\* C6 witness: a socket that dropped a malformed frame while the store held a
\* message has delivered a message frame afterwards.
C6_Witness ==
    /\ op[1] = "frame"
    /\ op[2] = "message"
    /\ sockets[op[3]].dropped
    /\ Len(messages) = 2

\* The parts of C7_UnknownIgnored, stated below.
C7_Step ==
    (op'[1] = "frame" /\ op'[2] = "heartbeat") =>
        /\ UNCHANGED storeFields
        /\ ~uncaught'

\* C7: a frame with an unknown type tag leaves every store field unchanged
\* and raises nothing.
C7_UnknownIgnored == [][C7_Step]_vars

\* C7 witness: an unknown frame has just been delivered to a store that holds
\* telemetry and a changed project.
C7_Witness ==
    /\ op[1] = "frame"
    /\ op[2] = "heartbeat"
    /\ Len(messages) > 0
    /\ currentProject[1].status = "completed"

\* The Message entry a message or project_status frame produces.
EntryOf(data) ==
    IF data.type = "message"
    THEN [data EXCEPT !.timestamp = IF @ = "" THEN Now ELSE @]
    ELSE [type |-> "system", content |-> data.message, sent_from |-> "System",
          timestamp |-> Now]

\* The parts of C8_DeliveryOrder, stated below.
C8_InOrder ==
    /\ Len(messages) = Len(delivered)
    /\ \A i \in 1..Len(messages) : messages[i] = EntryOf(delivered[i])

C8_Step ==
    \/ messages' = messages
    \/ /\ Len(messages') = Len(messages) + 1
       /\ SubSeq(messages', 1, Len(messages)) = messages
    \/ /\ op'[1] = "clear"
       /\ messages' = << >>

\* C8: the Message sequence lists the entries of the message and
\* project_status frames applied since the last clear, in delivery order, and
\* a step either leaves it alone, appends one entry, or is a clear.
C8_DeliveryOrder == []C8_InOrder /\ [][C8_Step]_vars

\* C8 witness: two different entries, a message and a status notice, are
\* listed in the order their frames came in.
C8_Witness ==
    /\ Len(messages) = 2
    /\ messages[1].type = "system"
    /\ messages[2].type = "message"
    /\ delivered[1].type = "project_status"
    /\ delivered[2].type = "message"

\* The focused project's roster, empty when there is none.
Roster(cp) ==
    IF Defined(cp) /\ Defined(cp[1].employees) THEN Val(cp[1].employees) ELSE << >>

Names(r) == [i \in 1..Len(r) |-> r[i].name]

IsAgentStatus(o) == o[1] = "frame" /\ o[2] = "agent_status"

\* The parts of C9_UnknownNameNoOp, stated below.
C9_Step ==
    (/\ IsAgentStatus(op')
     /\ \A i \in 1..Len(Roster(currentProject)) :
           Roster(currentProject)[i].name # op'[4].data.agent_name) =>
        /\ currentProject' = currentProject
        /\ UNCHANGED storeFields

\* C9: an agent_status event whose name is not in the focused project's
\* roster leaves the roster, and the whole store, unchanged.
C9_UnknownNameNoOp == [][C9_Step]_vars

\* C9 witness: a status for the unknown Carol has just been applied to a
\* roster of two.
C9_Witness ==
    /\ IsAgentStatus(op)
    /\ op[4].data.agent_name = "Carol"
    /\ Names(Roster(currentProject)) = << "Alice", "Bob" >>

\* The parts of C10_StatusApplied, stated below.
C10_Step ==
    IsAgentStatus(op') =>
        LET d == op'[4].data
            old == Roster(currentProject)
            new == Roster(currentProject')
        IN  \A i \in 1..Len(old) :
                old[i].name = d.agent_name =>
                    /\ Names(new) = Names(old)
                    /\ new[i].is_idle = (d.status = "idle")
                    /\ d.status = "working" => ~new[i].is_idle
                    /\ new[i].current_action = d.action
                    /\ new[i].profile = old[i].profile
                    /\ \A j \in 1..Len(old) : j # i => new[j] = old[j]

\* C10: an agent_status event that names an employee of the roster sets that
\* employee's is_idle to (status = 'idle'), so to false for 'working', and
\* current_action to the event's action; the other employees, the names and
\* their order stay.
C10_StatusApplied == [][C10_Step]_vars

\* C10 witness: Bob has just been reported working on 'coding' while Alice,
\* updated earlier, keeps her own state.
C10_Witness ==
    /\ IsAgentStatus(op)
    /\ op[4].data.agent_name = "Bob"
    /\ op[4].data.status = "working"
    /\ Len(Roster(currentProject)) = 2
    /\ Roster(currentProject)[2] = Employee("Bob", FALSE, "coding")
    /\ Roster(currentProject)[1] = Employee("Alice", FALSE, "coding")

TelemetryNames == {"messages", "thinkingLogs", "llmCalls", "toolUsages"}

\* C2: one project at most is focused (currentProject and currentProjectId
\* agree), and the telemetry holds no entry of an earlier stream: every entry
\* of the four sequences was delivered by the socket held now, so that after
\* a switch to B, with the stream opened for B, every entry is one of B's.
C2_FocusReleased ==
    /\ IF Defined(currentProject)
       THEN currentProject[1].id = currentProjectId
       ELSE currentProjectId = NoId
    /\ \A f \in TelemetryNames :
          \A j \in 1..Len(origin[f]) : origin[f][j] = ws
    /\ (ws # 0 /\ sockets[ws].url = currentProjectId) =>
          \A f \in TelemetryNames :
              \A j \in 1..Len(origin[f]) :
                  sockets[origin[f][j]].url = currentProjectId

\* C2 witness: P1's stream had delivered telemetry, the focus has moved to
\* P2, and P2's stream has delivered a message and an LLM call.
C2_Witness ==
    /\ currentProjectId = "P2"
    /\ Len(sockets) = 2
    /\ sockets[1].url = "P1" /\ sockets[1].applied
    /\ ws = 2 /\ sockets[2].url = "P2"
    /\ Len(messages) = 1 /\ Len(llmCalls) = 1
    /\ fetching = << >>

\* The parts of C3_StaleDetailIgnored, stated below.
C3_Step ==
    (op'[1] = "detail-ok" /\ op'[2] # currentProjectId) =>
        /\ panel'.currentCall = panel.currentCall
        /\ panel'.currentIndex = panel.currentIndex
        /\ panel'.totalCount = panel.totalCount
        /\ panel'.hasPrev = panel.hasPrev
        /\ panel'.hasNext = panel.hasNext

\* C3, as claimed: a detail response for a project that is no longer the
\* focused one leaves the cursor's record, index, total and flags unchanged.
C3_StaleDetailIgnored == [][C3_Step]_vars

\* The thinking-log entries that a tool usage synthesized.
ToolEntries(logs) == {i \in 1..Len(logs) : logs[i].type = "tool"}

\* The parts of C11_ToolUsageMirrored, stated below.
C11_Step ==
    /\ (op'[1] = "frame" /\ op'[2] = "tool_usage") =>
          LET d == op'[4].data
              n == Len(thinkingLogs')
          IN  /\ Len(toolUsages') = Len(toolUsages) + 1
              /\ SubSeq(toolUsages', 1, Len(toolUsages)) = toolUsages
              /\ toolUsages'[Len(toolUsages')].tool_name = d.tool_name
              /\ toolUsages'[Len(toolUsages')].agent_name = d.agent_name
              /\ n = Len(thinkingLogs) + 1
              /\ SubSeq(thinkingLogs', 1, n - 1) = thinkingLogs
              /\ thinkingLogs'[n].type = "tool"
              /\ thinkingLogs'[n].agent_name = d.agent_name
    /\ Len(toolUsages') > Len(toolUsages) =>
          /\ Len(toolUsages') = Len(toolUsages) + 1
          /\ Len(thinkingLogs') = Len(thinkingLogs) + 1

\* C11: a tool_usage event appends exactly one ToolUsage and exactly one
\* ThinkingLogEntry of type tool, so whenever the ToolUsage sequence grows the
\* thinking log grows by one with it, and the thinking log holds as many
\* entries of type tool as there are ToolUsages.
C11_ToolUsageMirrored ==
    /\ [](Cardinality(ToolEntries(thinkingLogs)) = Len(toolUsages))
    /\ [][C11_Step]_vars

\* C11 witness: a tool usage has just been recorded after a thinking entry of
\* the agent's own.
C11_Witness ==
    /\ op[1] = "frame"
    /\ op[2] = "tool_usage"
    /\ Len(toolUsages) = 1
    /\ Len(thinkingLogs) = 2
    /\ thinkingLogs[1].type = "thinking"
    /\ thinkingLogs[2].type = "tool"

\* The frames that carry a running total.
TotalFrames == {d \in CostFrames \cup PricedCallFrames : Defined(d.total_cost)}

CarriesTotal(o) ==
    /\ o[1] = "frame"
    /\ o[2] \in {"cost_update", "llm_call"}
    /\ Defined(o[4].data.total_cost)

\* total_cost of the list entry of project id, none when it has no entry.
ListCost(list, id) ==
    LET i == FirstIndex({k \in 1..Len(list) : list[k].id = id})
    IN  IF i > 0 THEN Some(list[i].total_cost) ELSE None

\* The parts of C12_CostIsSet, stated below.
C12_Step ==
    (CarriesTotal(op') /\ Defined(currentProject)) =>
        /\ currentProject'[1].total_cost = Val(op'[4].data.total_cost)
        /\ ListCost(projects', currentProjectId) = op'[4].data.total_cost

C12_Idempotent ==
    \A d \in TotalFrames :
        LET once == handleMessage(Store, d)
            twice == handleMessage(once, d)
        IN  /\ twice.currentProject = once.currentProject
            /\ twice.projects = once.projects

\* C12: a cost_update or llm_call event that carries total_cost sets the
\* focused project's total_cost, and its list entry's, to the carried value
\* whatever it was before, and applying the same event a second time leaves
\* the project and the list as the first application left them.
C12_CostIsSet == []C12_Idempotent /\ [][C12_Step]_vars

\* C12 witness: after an LLM call that carried the total 700, a cost update
\* carrying 300 has just been applied and the total is 300.
C12_Witness ==
    /\ CarriesTotal(op)
    /\ op[2] = "cost_update"
    /\ Val(op[4].data.total_cost) = 300
    /\ Len(llmCalls) = 1
    /\ llmCalls[1].cost = 250
    /\ currentProject[1].total_cost = 300

\* The focused project is running.
Running(cp) == Defined(cp) /\ cp[1].status = "running"

\* The parts of C13_CostMonotone, stated below.
C13_Step ==
    (op'[1] = "frame" /\ Running(currentProject) /\ Running(currentProject')) =>
        currentProject'[1].total_cost >= currentProject[1].total_cost

\* C13, as claimed: while the focused project is running no stream event
\* makes its total_cost smaller than it was.
C13_CostMonotone == [][C13_Step]_vars

\* The parts of C14_NoClientSum, stated below.
C14_Step ==
    (/\ op'[1] = "frame"
     /\ op'[2] = "llm_call"
     /\ ~Defined(op'[4].data.total_cost)) =>
        /\ Len(llmCalls') = Len(llmCalls) + 1
        /\ SubSeq(llmCalls', 1, Len(llmCalls)) = llmCalls
        /\ llmCalls'[Len(llmCalls')].cost = op'[4].data.cost
        /\ currentProject' = currentProject
        /\ projects' = projects

\* C14: an llm_call event that carries a cost of its own but no total_cost
\* appends one LLM call summary and leaves the focused project, its
\* total_cost included, and the project list unchanged.
C14_NoClientSum == [][C14_Step]_vars

\* C14 witness: a call costing 100 has just been appended as the second
\* summary while the total, set to 500 by the server, is still 500.
C14_Witness ==
    /\ op[1] = "frame"
    /\ op[2] = "llm_call"
    /\ ~Defined(op[4].data.total_cost)
    /\ op[4].data.cost = 100
    /\ Len(llmCalls) = 2
    /\ currentProject[1].total_cost = 500
    /\ ListCost(projects, currentProjectId) = Some(500)

\* The parts of C17_ResetReleasesFocus, stated below.
C17_Step ==
    op'[1] = "leave" =>
        /\ currentProject' = None
        /\ currentProjectId' = NoId
        /\ messages' = << >>
        /\ thinkingLogs' = << >>
        /\ llmCalls' = << >>
        /\ toolUsages' = << >>
        /\ projects' = projects

\* C17: reset(), run when the page is left, leaves no project focused
\* (currentProject and currentProjectId both unset) and the four telemetry
\* sequences empty, and the project list as it was.
C17_ResetReleasesFocus ==
    /\ [][C17_Step]_vars
    /\ [](reset(Store).currentProject = None /\ reset(Store).projects = projects)

\* C17 witness: the page has just been left with a project list that the
\* stream had updated (P1 running, total 500); nothing is focused.
C17_Witness ==
    /\ op[1] = "leave"
    /\ currentProject = None
    /\ currentProjectId = NoId
    /\ Len(projects) = 2
    /\ projects[1].status = "running"
    /\ projects[1].total_cost = 500

\* The parts of C16_ClearKeepsProject, stated below.
C16_Cleared(c, s) ==
    /\ c.messages = << >>
    /\ c.thinkingLogs = << >>
    /\ c.llmCalls = << >>
    /\ c.toolUsages = << >>
    /\ c.currentProject = s.currentProject
    /\ c.currentProjectId = s.currentProjectId
    /\ c.projects = s.projects

C16_Step == op'[1] = "clear" => C16_Cleared(Store', Store)

\* C16: clearMessages() empties the Message, ThinkingLogEntry,
\* LLMCallSummary and ToolUsage sequences and leaves the focused project
\* (its status, total_cost and employees), the focused id and the project
\* list as they were.
C16_ClearKeepsProject ==
    /\ [](C16_Cleared(clearMessages(Store), Store))
    /\ [][C16_Step]_vars

\* C16 witness: the telemetry has just been cleared while P1 is focused,
\* running, with the total 700 set by the stream.
C16_Witness ==
    /\ op[1] = "clear"
    /\ currentProjectId = "P1"
    /\ currentProject[1].status = "running"
    /\ currentProject[1].total_cost = 700
    /\ Defined(currentProject[1].employees)
    /\ messages = << >> /\ thinkingLogs = << >>
    /\ llmCalls = << >> /\ toolUsages = << >>

\* The parts of C15_CompletedApplied, stated below.
C15_Step ==
    (/\ op'[1] = "frame"
     /\ op'[2] = "project_status"
     /\ op'[4].data.status = "completed"
     /\ Defined(op'[4].data.total_cost)
     /\ Defined(currentProject)) =>
        LET d == op'[4].data
            n == Len(messages')
        IN  /\ currentProject'[1].status = "completed"
            /\ currentProject'[1].total_cost = Val(d.total_cost)
            /\ n = Len(messages) + 1
            /\ SubSeq(messages', 1, n - 1) = messages
            /\ messages'[n].type = "system"
            /\ messages'[n].content = d.message

\* C15: a project_status event with status 'completed' and a total_cost sets
\* the focused project's status to 'completed' and its total_cost to the
\* carried value, and appends exactly one Message, of type system, whose
\* content is the event's message text.
C15_CompletedApplied == [][C15_Step]_vars

\* C15 witness: after a chat message, the completion notice with the total
\* 12345 has just been applied.
C15_Witness ==
    /\ op[1] = "frame"
    /\ op[2] = "project_status"
    /\ op[4].data.status = "completed"
    /\ currentProject[1].status = "completed"
    /\ currentProject[1].total_cost = 12345
    /\ Len(messages) = 2
    /\ messages[1].type = "message"
    /\ messages[2].content = "done"

\* The parts of C19_RefreshFailsSilently, stated below.
C19_Step ==
    op'[1] = "listFail" =>
        /\ notifications' = notifications
        /\ idCounter' = idCounter
        /\ ~uncaught'
        /\ projects' = projects

\* C19, as claimed: when the list refresh that a project_status event
\* started fails, no notification is added, nothing is thrown and the
\* project list keeps its contents.
C19_RefreshFailsSilently == [][C19_Step]_vars

\* The ids of the notifications in the queue, in queue order.
Ids(list) == [i \in 1..Len(list) |-> list[i].id]

\* The parts of C20_IdsIncrease, stated below.
C20_Fresh ==
    /\ \A i, j \in 1..Len(notifications) :
          i < j => notifications[i].id < notifications[j].id
    /\ \A i \in 1..Len(notifications) : notifications[i].id \in assigned
    /\ \A id \in assigned : id <= idCounter

C20_Step ==
    /\ op'[1] = "add" =>
          /\ \A id \in assigned : op'[2] > id
          /\ op'[2] \notin assigned
          /\ assigned' = assigned \cup {op'[2]}
          /\ Ids(notifications') = Append(Ids(notifications), op'[2])
    /\ op'[1] # "add" => assigned' = assigned

\* C20: across any sequence of add and remove calls and timer expiries, the
\* id that add assigns is greater than every id assigned before, so the
\* notifications in the queue have pairwise different ids and an id whose
\* notification was removed is never assigned again.
C20_IdsIncrease == []C20_Fresh /\ [][C20_Step]_vars

\* C20 witness: three ids were assigned, the notifications 1 and 2 were
\* removed, and the one added after the removals has id 3.
C20_Witness ==
    /\ op[1] = "add"
    /\ op[2] = 3
    /\ assigned = {1, 2, 3}
    /\ Ids(notifications) = << 3 >>

\* The parts of C18_OneErrorAndRethrow, stated below.
C18_Step ==
    (op'[1] = "call-end" /\ op'[3] > 0) =>
        /\ op'[4]
        /\ op'[5] = << "error" >>

\* C18, as claimed: a call of fetchProject, createProject, updateProject,
\* deleteProject, startProject or stopProject in which a request failed has
\* added exactly one notification, of severity error, and throws to its
\* caller.
C18_OneErrorAndRethrow == [][C18_Step]_vars

\* The duration that a notification added through a helper of this kind has.
DurationOf(kind) ==
    CASE kind = "error" -> ErrorDuration
      [] kind = "sticky" -> 0
      [] OTHER -> DefaultDuration

Without(ids, id) == SelectSeq(ids, LAMBDA x : x # id)

\* The parts of C21_AutoRemoval, stated below.
C21_Due ==
    /\ \A tm \in timers : tm.duration > 0 /\ clock <= tm.due
    /\ \A i \in 1..Len(notifications) :
          notifications[i].type = "error" =>
              \E tm \in timers : /\ tm.id = notifications[i].id
                                  /\ tm.duration = ErrorDuration

C21_Step ==
    /\ op'[1] = "add" =>
          LET d == DurationOf(op'[3])
          IN  timers' = IF d > 0
                        THEN timers \cup {[id |-> op'[2], duration |-> d,
                                           due |-> clock + d]}
                        ELSE timers
    /\ op'[1] = "timer" =>
          /\ \E tm \in timers : /\ tm.id = op'[2]
                                 /\ tm.due <= clock
                                 /\ timers' = timers \ {tm}
          /\ Ids(notifications') = Without(Ids(notifications), op'[2])
    /\ \A i \in 1..Len(notifications) :
          LET id == notifications[i].id
          IN  (\A j \in 1..Len(notifications') : notifications'[j].id # id) =>
                  \/ op'[1] = "remove" /\ op'[2] = id
                  \/ /\ op'[1] = "timer" /\ op'[2] = id
                     /\ \E tm \in timers : tm.id = id

\* C21: a notification added with a duration > 0 (6000 ms for error, 4000 ms
\* for the other helpers) gets a timer due that many ms later; the timer
\* fires once that time has come, not before, and removes the notification,
\* so that none is queued past its due time.  A notification added with
\* duration 0 gets no timer and leaves the queue by remove(id) only.
C21_AutoRemoval == []C21_Due /\ [][C21_Step]_vars

\* C21 witness: 6000 ms on, the timer of notification 1 has just removed it,
\* and the notification added with duration 0 is still queued, with no timer
\* left.
C21_Witness ==
    /\ op[1] = "timer"
    /\ op[2] = 1
    /\ clock = ErrorDuration
    /\ timers = {}
    /\ Ids(notifications) = << 2 >>
    /\ notifications[1].type = "info"

\* The parts of C22_RemoveIdempotent, stated below.
C22_Once(n, id) ==
    LET r == remove(n, id)
    IN  /\ r.notifications = SelectSeq(n.notifications, LAMBDA x : x.id # id)
        /\ Len(r.notifications) >= Len(n.notifications) - 1
        /\ r.idCounter = n.idCounter
        /\ r.timers = n.timers
        /\ remove(r, id) = r
        /\ (\A i \in 1..Len(n.notifications) : n.notifications[i].id # id) => r = n

C22_Step ==
    op'[1] = "remove" =>
        /\ notifications' = remove(NQ, op'[2]).notifications
        /\ idCounter' = idCounter
        /\ timers' = timers

\* C22: remove(id) takes the notification with that id out of the queue and
\* leaves the others in place and in order; a second call, or a call for an
\* id that is not queued (never assigned, or removed before), changes
\* nothing.
C22_RemoveIdempotent ==
    /\ [](\A id \in 1..(MaxAdds + 1) : C22_Once(NQ, id))
    /\ [][C22_Step]_vars

\* C22 witness: remove has just been called for id 3, which was never
\* assigned, on a queue that holds the notifications 1 and 2.
C22_Witness ==
    /\ op[1] = "remove"
    /\ op[2] = 3
    /\ assigned = {1, 2}
    /\ Ids(notifications) = << 1, 2 >>

\* The parts of C23_NoOpAtBounds, stated below.
C23_Step ==
    /\ (op'[1] = "prev" /\ (~panel.hasPrev \/ panel.currentIndex <= 1)) =>
          panel' = panel /\ detailReqs' = detailReqs
    /\ (op'[1] = "next" /\ (~panel.hasNext \/ panel.currentIndex >= panel.totalCount)) =>
          panel' = panel /\ detailReqs' = detailReqs

\* C23: goToPrev() sends no request and leaves the cursor as it is when
\* hasPrev is false or the index is 1 (or less), and goToNext() when hasNext
\* is false or the index has reached total_count.
C23_NoOpAtBounds == [][C23_Step]_vars

\* C23 witness: goToNext() has just run at index 2 of 2 with has_next true,
\* as a response had said, and nothing is in flight.
C23_Witness ==
    /\ op[1] = "next"
    /\ panel.hasNext
    /\ panel.currentIndex = 2
    /\ panel.totalCount = 2
    /\ ~panel.loading
    /\ detailReqs = {}

\* The parts of C24_PrevThenNext, stated below.
C24_Returned ==
    (/\ Len(trail) = 2
     /\ trail[1].via = "prev"
     /\ trail[2].via = "next"
     /\ trail[2].from = trail[1].to
     /\ trail[2].to > 0) =>
        /\ trail[1].to = trail[1].from - 1
        /\ trail[2].to = trail[1].from

C24_Step ==
    (op'[1] = "detail-ok" /\ Len(trail') > 0) =>
        (trail'[Len(trail')].to > 0 => panel'.currentIndex = trail'[Len(trail')].to)

\* C24: with record k shown, goToPrev() answered successfully and then
\* goToNext() from the record it led to, answered successfully, show a
\* record whose index is k again.
C24_PrevThenNext == []C24_Returned /\ [][C24_Step]_vars

\* C24 witness: from record 2 the panel went back to 1 and on to 2.
C24_Witness ==
    /\ op[1] = "detail-ok"
    /\ Len(trail) = 2
    /\ trail[1] = [via |-> "prev", from |-> 2, to |-> 1]
    /\ trail[2] = [via |-> "next", from |-> 1, to |-> 2]
    /\ panel.currentIndex = 2
    /\ ~panel.loading

\* The largest ordinal that IdWidth decimal digits carry (9999).
MaxOrdinal == 10 ^ IdWidth - 1

\* The encoding does not depend on the state; it is evaluated where a run
\* starts.
C25_Encoding ==
    op[1] = "init" =>
        \A n \in 1..MaxOrdinal :
            /\ Len(CallId(n)) = IdWidth
            /\ \A j \in 1..IdWidth : CallId(n)[j] \in 0..9
            /\ Ordinal(CallId(n)) = n

\* The position that a navigation step asks for, 0 when it asks for none.
Target(via, p) ==
    CASE via = "prev" -> IF p.hasPrev /\ p.currentIndex > 1 THEN p.currentIndex - 1 ELSE 0
      [] via = "next" -> IF p.hasNext /\ p.currentIndex < p.totalCount
                         THEN p.currentIndex + 1 ELSE 0
      [] via = "latest" -> p.totalCount

\* The parts of C25_LoadVerbatim, stated below.
C25_Step ==
    /\ (op'[1] \in {"prev", "next", "latest"} /\ Target(op'[1], panel) > 0) =>
          LET req == [project |-> currentProject[1].id,
                      callId |-> CallId(Target(op'[1], panel))]
          IN  /\ req \in detailReqs'
              /\ detailReqs' \subseteq detailReqs \cup {req}
              /\ Len(req.callId) = IdWidth
              /\ Ordinal(req.callId) = Target(op'[1], panel)
              /\ panel'.loading
    /\ op'[1] = "detail-ok" =>
          LET data == op'[3]
          IN  /\ panel'.currentCall = Some(data)
              /\ panel'.currentIndex = data.index
              /\ panel'.totalCount = data.total_count
              /\ panel'.hasPrev = data.has_prev
              /\ panel'.hasNext = data.has_next

\* C25: a load sends exactly one request, to the focused project, for the
\* 1-based position encoded as 4 decimal digits, zero-padded, which reads back
\* as the position for every ordinal in 1..9999; a successful response sets
\* the record, index, total_count, has_prev and has_next to the response's
\* values as they come.
C25_LoadVerbatim == []C25_Encoding /\ [][C25_Step]_vars

\* C25 witness: a response for position 1 claimed has_prev and no has_next
\* of 2 records, and the cursor says the same.
C25_Witness ==
    /\ op[1] = "detail-ok"
    /\ op[3].index = 1 /\ op[3].total_count = 2
    /\ op[3].has_prev /\ ~op[3].has_next
    /\ panel.currentIndex = 1 /\ panel.totalCount = 2
    /\ panel.hasPrev /\ ~panel.hasNext
    /\ panel.currentCall = Some(op[3])

\* The parts of C26_LatestJumps, stated below.
C26_Step ==
    op'[1] = "latest" =>
        IF panel.totalCount = 0
        THEN panel' = panel /\ detailReqs' = detailReqs
        ELSE LET req == [project |-> currentProject[1].id,
                         callId |-> CallId(panel.totalCount)]
             IN  /\ req \in detailReqs'
                 /\ detailReqs' \subseteq detailReqs \cup {req}
                 /\ Ordinal(req.callId) = panel.totalCount
                 /\ panel'.loading

\* C26: goToLatest() requests the record at position total_count, and does
\* nothing while total_count is 0.
C26_LatestJumps == [][C26_Step]_vars

\* C26 witness: at record 1 of 2, goToLatest() has just asked for record 2.
C26_Witness ==
    /\ op[1] = "latest"
    /\ panel.currentIndex = 1
    /\ panel.totalCount = 2
    /\ panel.loading
    /\ detailReqs = {[project |-> "P1", callId |-> << 0, 0, 0, 2 >>]}

\* C27: when a detail fetch fails, the record shown, the index, total_count
\* and the flags (and everything else of the panel) stay as they were, and
\* loading is false afterwards.
C27_FailureKeepsCursor ==
    [][op'[1] = "detail-failed" => panel' = [panel EXCEPT !.loading = FALSE]]_vars

\* C27 witness: the fetch of record 1 from record 2 of 2 has failed.
C27_Witness ==
    /\ op[1] = "detail-failed"
    /\ Defined(panel.currentCall)
    /\ panel.currentIndex = 2
    /\ panel.totalCount = 2
    /\ panel.hasPrev /\ ~panel.hasNext
    /\ ~panel.loading
    /\ trail = << >>

\* A call summary has just been appended to the list that the panel watches.
Pushed == op'[1] = "frame" /\ op'[2] = "llm_call" /\ Len(llmCalls') > Len(llmCalls)

\* C28: when a call summary arrives while the cursor is at the latest record
\* (index >= total_count) or nothing is shown, the panel shows the new
\* summary, index and total_count are the length of the list, and has_next is
\* false.
C28_AutoFollow ==
    [][(Pushed /\ (isLatest(panel) \/ ~Defined(panel.currentCall))) =>
          /\ panel'.currentCall = Some(llmCalls'[Len(llmCalls')])
          /\ Val(panel'.currentCall).agent_name = op'[4].data.agent_name
          /\ panel'.currentIndex = Len(llmCalls')
          /\ panel'.totalCount = panel'.currentIndex
          /\ ~panel'.hasNext]_vars

\* C28 witness: with Alice's call shown as 1 of 1, Bob's call arrived and is
\* shown as 2 of 2.
C28_Witness ==
    /\ op[1] = "frame" /\ op[2] = "llm_call"
    /\ Len(llmCalls) = 2
    /\ llmCalls[1].agent_name = "Alice"
    /\ Defined(panel.currentCall)
    /\ Val(panel.currentCall).agent_name = "Bob"
    /\ panel.currentIndex = 2
    /\ panel.totalCount = 2
    /\ panel.hasPrev /\ ~panel.hasNext

\* C29: when a call summary arrives while a record before the latest is
\* shown, the record and the index stay (as does the rest of the panel) and
\* only total_count and has_next are refreshed.
C29_NoFollowAway ==
    [][(Pushed /\ ~isLatest(panel) /\ Defined(panel.currentCall)) =>
          panel' = [panel EXCEPT !.totalCount = Len(llmCalls'),
                                 !.hasNext = panel.currentIndex < Len(llmCalls')]]_vars

\* C29 witness: record 1 of 2 was fetched and shown, the list was cleared and
\* a call arrived: the fetched record is still shown, now as 1 of 1.
C29_Witness ==
    /\ op[1] = "frame" /\ op[2] = "llm_call"
    /\ Len(llmCalls) = 1
    /\ Defined(panel.currentCall)
    /\ "full_response" \in DOMAIN Val(panel.currentCall)
    /\ panel.currentIndex = 1
    /\ panel.totalCount = 1
    /\ ~panel.hasNext

\* C30: whenever the record shown changes, the expanded set is empty and the
\* response is collapsed right after the change.
C30_SwitchCollapses ==
    [][panel'.currentCall # panel.currentCall =>
          panel'.expandedMsgs = {} /\ ~panel'.responseExpanded]_vars

\* The parts of C31_ListMirrorsFocus, stated below.
C31_Step ==
    (op'[1] = "frame" /\ Defined(currentProject) /\ Defined(currentProject')) =>
        /\ Len(projects') = Len(projects)
        /\ \A i \in 1..Len(projects) :
              IF projects[i].id = currentProject[1].id
              THEN /\ projects'[i].id = projects[i].id
                   /\ op'[2] = "project_status" =>
                         projects'[i].status = currentProject'[1].status
                   /\ CarriesTotal(op') =>
                         projects'[i].total_cost = currentProject'[1].total_cost
              ELSE projects'[i] = projects[i]

\* C31: after a stream event that sets the focused project's status
\* (project_status) or total_cost (cost_update, llm_call with a total), the
\* list entry with the focused project's id carries the same status, resp.
\* total_cost, as the focused project, and the entries with other ids are as
\* they were.
C31_ListMirrorsFocus == [][C31_Step]_vars

\* C31 witness: after an LLM call that carried the total 700 and the start
\* of a run, the list shows P1 running at 700, as the focused project does,
\* and P2's entry as it was.
C31_Witness ==
    /\ op[1] = "frame" /\ op[2] = "project_status"
    /\ Defined(currentProject)
    /\ currentProject[1].id = "P1"
    /\ currentProject[1].status = "running"
    /\ currentProject[1].total_cost = 700
    /\ projects = << Summary("P1", "running", 700), Summary("P2", "created", 0) >>

\* The parts of C32_StatusRefreshesList, stated below.
C32_Step ==
    /\ (op'[1] = "frame" /\ op'[2] = "project_status") =>
          /\ listReqs' = listReqs + 1
          /\ refresh'.latest \notin refresh.flight
          /\ refresh'.flight = refresh.flight \cup {refresh'.latest}
    /\ op'[1] = "listOk" =>
          /\ op'[2] \in refresh.flight
          /\ refresh'.flight = refresh.flight \ {op'[2]}
          /\ listReqs' = listReqs - 1
          /\ projects' = op'[3]

\* C32: every project_status event sends exactly one request for the project
\* list, and when a request is answered successfully the list is the
\* server's response.
C32_StatusRefreshesList == [][C32_Step]_vars

\* C32 witness: the completion of P1 was announced, and the one request that
\* the event sent has been answered: the list is the server's, with P1
\* completed at 12345.
C32_Witness ==
    /\ op[1] = "listOk"
    /\ refresh = [latest |-> 1, flight |-> {}, held |-> 1]
    /\ Len(delivered) = 1
    /\ delivered[1].type = "project_status"
    /\ delivered[1].status = "completed"
    /\ projects = op[3]
    /\ projects = << Summary("P1", "completed", 12345), Summary("P2", "created", 0) >>

\* C37, as claimed: once every list request has been answered, none of them
\* with a failure, the list holds the response to the request sent last.
C37_LatestRefreshWins ==
    (refresh.flight = {} /\ refresh.latest > 0 /\ idCounter = 0) =>
        refresh.held = refresh.latest

\* The parts of C33_OnlyCompletedCarriesCost, stated below.
C33_Step ==
    (/\ op'[1] = "frame" /\ op'[2] = "project_status"
     /\ op'[4].data.status # "completed"
     /\ Defined(currentProject)) =>
        /\ currentProject' = [currentProject EXCEPT ![1].status = op'[4].data.status]
        /\ Len(messages') = Len(messages) + 1
        /\ SubSeq(messages', 1, Len(messages)) = messages
        /\ messages'[Len(messages')].type = "system"
        /\ messages'[Len(messages')].content = op'[4].data.message
        /\ \A i \in 1..Len(projects) :
              projects'[i].total_cost = projects[i].total_cost

\* C33: a project_status event whose status is not 'completed' sets the
\* status and appends one system message, and leaves the focused project's
\* total_cost and output_path (and the costs in the list) as they were, also
\* when the event carries total_cost and output_path.
C33_OnlyCompletedCarriesCost == [][C33_Step]_vars

\* C33 witness: P1, completed at 12345 with output in /out, was then reported
\* stopped at 999 with output in /partial: it is stopped, at 12345, in /out.
C33_Witness ==
    /\ op[1] = "frame" /\ op[2] = "project_status"
    /\ op[4].data.status = "stopped"
    /\ op[4].data.total_cost = Some(999)
    /\ Defined(currentProject)
    /\ currentProject[1].status = "stopped"
    /\ currentProject[1].total_cost = 12345
    /\ currentProject[1].output_path = "/out"
    /\ Len(messages) = 2
    /\ messages[2].content = "stopped"

\* C34, as claimed: when no focus load is pending (and none has failed, which
\* would send the page away), the open stream is the focused project's.
C34_StreamIsFocused ==
    (/\ page = "mounted"
     /\ fetching = << >>
     /\ idCounter = 0
     /\ ws # 0
     /\ sockets[ws].readyState = "OPEN") =>
        sockets[ws].url = currentProjectId

\* C35, as claimed: once the page is left, no stream is open or being opened
\* and no project is focused.
C35_LeftStaysReleased ==
    page = "left" =>
        /\ \A i \in 1..Len(sockets) :
              sockets[i].readyState \notin {"CONNECTING", "OPEN"}
        /\ ~Defined(currentProject)
        /\ currentProjectId = NoId

\* C36, as claimed: isConnected is true whenever the socket that the manager
\* holds is open.
C36_ConnectedWhenOpen ==
    (ws # 0 /\ sockets[ws].readyState = "OPEN") => isConnected

\* C38, as claimed: the cursor's index is within 0..total_count.
C38_IndexInRange ==
    /\ 0 <= panel.currentIndex
    /\ panel.currentIndex <= panel.totalCount

\* The parts of C39_LateTimerRemovesNothing, stated below.
C39_Step ==
    op'[1] = "timer" =>
        /\ op'[3] = (op'[2] \in IdsIn(notifications))
        /\ op'[2] \notin IdsIn(notifications) => notifications' = notifications
        /\ \A i \in 1..Len(notifications) :
              notifications[i].id # op'[2] =>
                  \E j \in 1..Len(notifications') : notifications'[j] = notifications[i]

\* C39: an expiry timer that fires for a notification already removed leaves
\* the queue as it is, and a timer never removes a notification with another
\* id than its own, whatever was added since.
C39_LateTimerRemovesNothing == [][C39_Step]_vars

\* C39 witness: the timer of a removed notification has just fired while a
\* notification added after it is in the queue, and still is.
C39_Witness ==
    /\ op[1] = "timer"
    /\ op[2] \in assigned
    /\ ~op[3]
    /\ op[2] \notin IdsIn(notifications)
    /\ \E i \in 1..Len(notifications) : notifications[i].id > op[2]

\* The focus is as it was.
FocusKept == currentProject' = currentProject /\ currentProjectId' = currentProjectId

\* The parts of C40_DeleteReleasesOwnFocus, stated below: the call, the
\* answer to the delete request (ok: the call goes on to refresh the list;
\* failed: the call throws), and the answer to the list request.
C40_Step ==
    /\ (op'[1] = "call" /\ op'[2] = "deleteProject") => FocusKept
    /\ (op'[1] = "call-await" /\ op'[2] = "deleteProject") =>
          /\ op'[3] = "getProjects"
          /\ IF op'[4] = currentProjectId
             THEN currentProject' = None /\ currentProjectId' = NoId
             ELSE FocusKept
    /\ (op'[1] = "call-end" /\ op'[2] = "deleteProject") => FocusKept

\* C40: deleteProject(id) releases the focus when the delete request has
\* succeeded and id is the focused project's; it leaves the focus as it is
\* when id is another project's and when the delete request fails.
C40_DeleteReleasesOwnFocus == [][C40_Step]_vars

\* C40 witness: with P1 focused, the request to delete P2 has succeeded and
\* P1 is still focused.
C40_Witness ==
    /\ op[1] = "call-await" /\ op[2] = "deleteProject"
    /\ op[4] = "P2"
    /\ currentProjectId = "P1"
    /\ Defined(currentProject)
    /\ currentProject[1].id = "P1"

====
